---------------------------- MODULE Spec2Model ----------------------------
(* A model of the metabeak pipeline: the checkpointed Crossref harvester,  *)
(* the identifier resolver, the extractor and executor pumps over their    *)
(* skip-locked queues, and the sandbox runtime (run_all) with its watchdog *)
(* thread.  Each subsystem has its own specification over the shared       *)
(* variables; the variables of the other subsystems stay at their initial  *)
(* values.                                                                 *)
EXTENDS Integers, Sequences, FiniteSets, Bags, TLC

(***************************************************************************)
(* Option values, as in Rust: None is the empty tuple, Some(x) is <<x>>.   *)
(***************************************************************************)
None == <<>>
Some(x) == <<x>>
IsSome(o) == o # None
Unwrap(o) == o[1]
UnwrapOr(o, d) == IF o = None THEN d ELSE o[1]

Max2(a, b) == IF a >= b THEN a ELSE b

(***************************************************************************)
(* Bounds of the model.                                                    *)
(***************************************************************************)
\* Timestamps are whole hours 0..MaxTime.
MaxTime == 3
\* Items the API returns over the pages of one harvest run.
MaxItems == 3
\* Concurrent processes: resolver callers, and the drain tasks of a stage
\* (main spawns five).
NumProcs == 2
\* Metadata assertions that are ever enqueued.
MaxAssertions == 2
\* Identifiers that callers outside the pumps resolve.
NumIdents == 2
\* Events that are ever put on the event queue.
MaxEvents == 2
\* Handlers in the list run_all is given.
MaxHandlers == 2
\* Events in the list run_all is given.
MaxRunEvents == 2
\* Watchdog timeouts, in one run_all, that cut short JavaScript which was
\* about to return by itself.
MaxEarlyTimeouts == 1

\* Callers of load_handler at a time, and calls in all.
NumLoaders == 2

MaxLoads == 3

\* Transactions open at a time on metadata_assertion, and calls in all.
NumTx == 2

MaxOps == 3

Times == 0..MaxTime

VARIABLES
    \* ---- harvester (poll_newly_indexed_data) ----
    checkpoint,     \* committed checkpoint row 'crossref-not-before': Option time
    hPc,            \* "idle" | "running" | "done" (returned Ok) | "failed" (returned Err)
    cpRead,         \* what get_checkpoint returned at the start of the run
    after,          \* the run's `after`
    latestDate,     \* the consumer's latest_date
    chan,           \* the mpsc channel between producer and consumer
    again,          \* the producer's loop flag
    senderDropped,  \* the producer task has returned and dropped the Sender
    fetched,        \* items the API has returned to this run so far
    anyKept,        \* some item of this run passed the 'indexed > after' filter
    fetchFailed,    \* a page fetch of this run failed after its retries
    hMode,          \* the scan of this run: "incremental" | "filter"
    hAsserts,       \* the reasons of this run's assert_metadata calls, in call order
    \* ---- identifier resolver (resolve_identifier) ----
    entity,         \* committed entity table: rows [entity_id, identifier]
    entitySeq,      \* the entity_id sequence: the last id handed out
    rcall,          \* per process: its resolve_identifier call in flight
    returned,       \* every (identifier, entity_id) a resolve call has returned
    \* ---- extractor (event_extraction::service) ----
    assertions,     \* committed metadata_assertion rows that were enqueued, by assertion_id
    queue,          \* committed metadata_assertion_queue rows
    events,         \* committed event rows, a bag; ord is a row's place in its transaction
    secondary,      \* entity ids with a committed content-negotiation assertion
    wpc,            \* per drain task: where it is in drain / pump_n; "done" once drain returned
    locked,         \* per drain task: queue rows its open transaction locked and deleted
    todo,           \* per drain task: events of the batch still to be handled
    subjId,         \* per drain task: subject_entity_id of the event in hand
    objId,          \* per drain task: object_entity_id of the event in hand
    txEvents,       \* per drain task: event rows inserted in its open transaction
    txSecondary,    \* per drain task: assertions inserted in its open transaction
    alloc,          \* per drain task: entity rows its resolve calls created during this pump
    rolledBack,     \* entity rows created during pumps that were then rolled back,
                    \* each with the queue rows that pump had polled
    reResolved,     \* what resolve calls returned for identifiers of rolledBack rows
    \* ---- executor (service::drain, try_pump) ----
    eventQueue,     \* committed event_queue rows
    eventSeq,       \* the event_id sequence: the last id handed out
    handlerTable,   \* committed handler rows that are enabled
    results,        \* committed execution_result rows, a bag
    xpc,            \* per executor process: where it is in drain / try_pump
    xlocked,        \* per executor process: event_queue rows its open transaction locked and deleted
    xevents,        \* per executor process: the polled events' ids, in queue order
    xproduced,      \* per executor process: what run_all returned
    xsaved,         \* per executor process: rows save_results inserted in its open transaction
    delivered,      \* events polled by pumps that committed
    xhandlers,      \* per executor process: the enabled handler rows when its
                    \* transaction read the handler table
    offered,        \* per event polled by a pump that committed: those rows
    owed,           \* what run_all returned to pumps that committed, a bag
    aborted,        \* events polled by pumps that had results and were rolled back
    \* the try_pump that calls run_all
    callerTx,       \* its transaction: pc, the polled event ids still on the committed
                    \* event queue, the committed execution_result rows
    \* run_all
    rpc,            \* where the orchestrator is in run_all
    handlers,       \* the handlers argument
    runEvents,      \* the events argument
    hydrated_events, \* the events whose to_json_value is Some
    handler_ix,     \* position of handler_spec in handlers
    event_ix,       \* position of the event in hydrated_events
    runResults,     \* the results vector
    handlerChan,    \* watchdog_send_handler -> watchdog_receive_handler
    terminatedChan, \* watchdog_send_terminated -> watchdog_receive_terminated
    senderGone,     \* watchdog_send_handler has been dropped
    wdpc,           \* where the watchdog thread is
    current_isolate, \* the watchdog's stored handle
    current_handler_id,
    terminating,    \* isolates on which terminate_execution is pending
    early,          \* timeouts so far that hit JavaScript which was not looping
    killed,         \* positions of the handlers whose load or call the termination cut short
    \* Event::to_json_value and Event::from_json_value
    cpc,            \* "start" | "picked" | "hydrated" | "ingested"
    original,       \* the event that is serialized
    hydratedJson,   \* what to_json_value returned for it
    ingested,       \* what from_json_value returned for that
    \* load_handler
    handlerRows,    \* the committed rows of the handler table
    handlerSeq,     \* the last value of the handler_id sequence
    loader,         \* per caller: where its load_handler call is, and what it holds
    loadLog,        \* the calls that returned, in the order they returned
    \* insert_metadata_assertion, ensure_metadata_assertion
    maRows,         \* the committed rows of metadata_assertion
    maSeq,          \* the last value of the assertion_id sequence
    atx,            \* per worker: its transaction and the call it is in
    insertLog,      \* what the calls of insert_metadata_assertion found and did
    ensureLog,      \* what the calls of ensure_metadata_assertion found and did
    opsDone,        \* calls made so far
    \* extract_events on one assertion
    qentry,         \* the MetadataQueueEntry and its parsed json, None before one is taken
    extracted,      \* what extract_events returned for it, None before the call
    \* reading analyzer and source codes (db::source)
    \* ---- one pump_n call over a mixed batch ----
    pumpQueue,      \* committed metadata_assertion_queue rows [queue_id, assertion_id]
    pumpAssertions, \* the MetadataQueueEntry of each assertion, by assertion_id
    pumpPc,         \* "idle" | "events" | "commit" | "returned"
    pumpBatch,      \* the entries poll_assertions returned to the open pump
    pumpEvents,     \* pump_n's `events`: what metadata_assertions_to_events returned
    pumpTodo,       \* the events the loop of pump_n has not yet inserted
    pumpTx,         \* the events inserted in the open transaction
    eventTable,     \* the committed event rows, in commit order
    pumpResult,     \* what pump_n returned: None | "Err" | <<count_processed, count_events>>
    pumpFetchTodo,  \* the identifiers of the event in hand that are still to be fetched
    pumpAttempts,   \* the requests made so far for the identifier being fetched
    pumpFetch,      \* the last response and what became of the last fetch, None before
    pumpFetchFailed,\* a fetch of this pump ended in Err after its retries
    pumpTxAborted,  \* a statement of the open transaction failed: Postgres refuses the rest
    pumpSecondary,  \* identifiers with a committed content-negotiation assertion
    pumpTxSecondary,\* identifiers asserted in the open transaction
    pumpDbFailed,   \* a database statement of this pump failed
    \* ---- one incremental harvest run against the listing of the API ----
    scanListing,    \* the works the API lists for the run's query, newest indexed first
    scanPc,         \* "idle" | "scan" | "checkpoint" | "done" (Ok) | "failed" (Err)
    scanCheckpoint, \* the committed checkpoint row: Option time
    scanAfter,      \* the run's `after`
    scanCursor,     \* the works of the listing the cursor has passed
    scanAgain,      \* the producer's loop flag
    scanDropped,    \* the producer has returned and dropped the Sender
    scanChan,       \* the channel: places in the listing of the items sent and not received
    scanPages,      \* the pages fetched so far, in order
    scanSent,       \* every item sent so far, in order
    scanLatest,     \* the consumer's latest_date
    scanReceived,   \* the places of the items the consumer has taken
    scanTx,         \* the places of the items asserted in the consumer's open transaction
    scanStored,     \* the places of the items whose assertion is committed
    \* ---- main: the stages of one invocation ----
    mainOpt,        \* the stages selected on the command line
    mainPc,         \* "boot" | "extract" | "execute" | "api" | "exit"
    mainRan,        \* the stages this invocation has started
    queuedAssertions, \* committed rows of metadata_assertion_queue
    queuedEvents,   \* committed rows of event_queue
    extractTask,    \* per extract task: its drain: pc, the rows its open pump holds, the
                    \* rows its last pump polled, whether a pump of it returned Err, the
                    \* pumps it has issued, whether it issued one after an Err
    executeDrain,   \* service::drain of the executor, likewise
    idCodes,        \* the analyzer_id and source_id of an event row, the analyzer and
                    \* source strings of a submitted event
    decoded,        \* what to_event made of the row, None before it is read
    parsed,         \* what from_str_value made of the strings, None before
    \* the --extract stage: drain tasks polling metadata_assertion_queue
    maq,            \* committed metadata_assertion_queue rows
    maqSeq,         \* the last value of the queue_id sequence
    maqPending,     \* queue rows inserted by transactions that are still open
    dpc,            \* per drain task: "loop" | "pump" | "done" (Ok) | "failed" (Err)
    dlocked,        \* per drain task: the rows its open pump polled, locked and deleted
    consumedMax,    \* the highest queue_id a committed pump has consumed
    pollers,        \* the drain tasks that have polled since the queue was created
    stageRun        \* this stage: the queue it started with, whether a row was enqueued since

harvestVars == <<checkpoint, hPc, cpRead, after, latestDate, chan, again,
                 senderDropped, fetched, anyKept, fetchFailed, hMode, hAsserts>>

resolveVars == <<entity, entitySeq, rcall, returned>>

\* The resolver's record of calls made outside the pumps.
callVars == <<rcall, returned>>

extractVars == <<assertions, queue, events, secondary, wpc, locked, todo,
                 subjId, objId, txEvents, txSecondary, alloc, rolledBack, reResolved>>

executeVars == <<eventQueue, eventSeq, handlerTable, results, xpc, xlocked, xevents,
                 xproduced, xsaved, delivered, xhandlers, offered, owed, aborted>>

runVars == <<rpc, handlers, runEvents, hydrated_events, handler_ix, event_ix,
             runResults, handlerChan, terminatedChan, senderGone, wdpc,
             current_isolate, current_handler_id, terminating, early, killed>>

callerVars == <<callerTx>>

codecVars == <<cpc, original, hydratedJson, ingested>>

loadVars == <<handlerRows, handlerSeq, loader, loadLog>>

assertVars == <<maRows, maSeq, atx, insertLog, ensureLog, opsDone>>

crossrefVars == <<qentry, extracted>>

sourceVars == <<idCodes, decoded, parsed>>

stageVars == <<maq, maqSeq, maqPending, dpc, dlocked, consumedMax, pollers, stageRun>>

pumpVars == <<pumpQueue, pumpAssertions, pumpPc, pumpBatch, pumpEvents, pumpTodo, pumpTx,
              eventTable, pumpResult, pumpFetchTodo, pumpAttempts, pumpFetch,
              pumpFetchFailed, pumpTxAborted, pumpSecondary, pumpTxSecondary, pumpDbFailed>>

scanVars == <<scanListing, scanPc, scanCheckpoint, scanAfter, scanCursor, scanAgain,
              scanDropped, scanChan, scanPages, scanSent, scanLatest, scanReceived, scanTx,
              scanStored>>

mainVars == <<mainOpt, mainPc, mainRan, queuedAssertions, queuedEvents, extractTask,
              executeDrain>>

vars ==
    <<harvestVars, resolveVars, extractVars, executeVars, runVars, codecVars, loadVars,
      assertVars, crossrefVars, stageVars, sourceVars, pumpVars, scanVars, mainVars, callerVars>>

\* What the actions of one subsystem leave alone.
nonHarvestVars == <<resolveVars, extractVars, executeVars, runVars, codecVars, loadVars,
      assertVars, crossrefVars, stageVars, sourceVars, pumpVars, scanVars, mainVars, callerVars>>
nonResolveVars == <<harvestVars, extractVars, executeVars, runVars, codecVars, loadVars,
      assertVars, crossrefVars, stageVars, sourceVars, pumpVars, scanVars, mainVars, callerVars>>
nonExtractVars == <<harvestVars, executeVars, runVars, codecVars, loadVars,
      assertVars, crossrefVars, stageVars, sourceVars, pumpVars, scanVars, mainVars, callerVars>>
nonExecuteVars == <<harvestVars, resolveVars, extractVars, runVars, codecVars, loadVars,
      assertVars, crossrefVars, stageVars, sourceVars, pumpVars, scanVars, mainVars, callerVars>>
nonRunVars == <<harvestVars, resolveVars, extractVars, executeVars, codecVars, loadVars,
      assertVars, crossrefVars, stageVars, sourceVars, pumpVars, scanVars, mainVars>>
nonStageVars ==
    <<harvestVars, resolveVars, extractVars, executeVars, runVars, codecVars, loadVars,
      assertVars, crossrefVars, sourceVars, pumpVars, scanVars, mainVars, callerVars>>
nonSourceVars ==
    <<harvestVars, resolveVars, extractVars, executeVars, runVars, codecVars, loadVars,
      assertVars, crossrefVars, stageVars, pumpVars, scanVars, mainVars, callerVars>>
nonCrossrefVars ==
    <<harvestVars, resolveVars, extractVars, executeVars, runVars, codecVars, loadVars,
      assertVars, stageVars, sourceVars, pumpVars, scanVars, mainVars, callerVars>>
nonAssertVars ==
    <<harvestVars, resolveVars, extractVars, executeVars, runVars, codecVars, loadVars, crossrefVars, stageVars, sourceVars, pumpVars, scanVars, mainVars, callerVars>>
nonLoadVars ==
    <<harvestVars, resolveVars, extractVars, executeVars, runVars, codecVars,
      assertVars, crossrefVars, stageVars, sourceVars, pumpVars, scanVars, mainVars, callerVars>>
nonCodecVars == <<harvestVars, resolveVars, extractVars, executeVars, runVars, loadVars,
      assertVars, crossrefVars, stageVars, sourceVars, pumpVars, scanVars, mainVars, callerVars>>

nonPumpVars ==
    <<harvestVars, resolveVars, extractVars, executeVars, runVars, codecVars, loadVars,
      assertVars, crossrefVars, stageVars, sourceVars, scanVars, mainVars, callerVars>>

nonScanVars ==
    <<harvestVars, resolveVars, extractVars, executeVars, runVars, codecVars, loadVars,
      assertVars, crossrefVars, stageVars, sourceVars, pumpVars, mainVars, callerVars>>

nonMainVars ==
    <<harvestVars, resolveVars, extractVars, executeVars, runVars, codecVars, loadVars,
      assertVars, crossrefVars, stageVars, sourceVars, pumpVars, scanVars, callerVars>>

(***************************************************************************)
(* Harvester.                                                              *)
(***************************************************************************)
\* Duration::HOUR, in the model's time unit.
Hour == 1
\* The lower end of the timestamp range, where saturating_sub saturates.
MinTime == 0

saturating_sub(t, d) == IF t - d < MinTime THEN MinTime ELSE t - d

\* A work item of the API: its indexed.date-time (None when absent or not a
\* valid date) and whether it has a string "DOI" field.
Items == [indexed : {None} \cup {Some(t) : t \in Times}, doi : BOOLEAN]

get_index_date(item) == item.indexed

\* The pages the API can return: any sequence of items that keeps the run
\* within MaxItems.
PagesUpTo(n) == UNION {[1..k -> Items] : k \in 0..n}

\* A filter that keeps the items indexed at `after` too.
WantedOrEqual(item, aft) ==
    IF IsSome(get_index_date(item)) THEN Unwrap(get_index_date(item)) >= aft ELSE FALSE

\* The filter of harvest_precise_index_date: indexed strictly after `after`.
Wanted(item, aft) ==
    IF IsSome(get_index_date(item)) THEN Unwrap(get_index_date(item)) > aft ELSE FALSE

wanted_items(items, aft) == SelectSeq(items, LAMBDA it : Wanted(it, aft))

\* poll_newly_indexed_data: begin, get_checkpoint, compute `after`, and
\* harvest_recently_indexed up to the spawn of the producer.
HarvestBegin ==
    /\ UNCHANGED nonHarvestVars
    /\ hPc = "idle"
    /\ \E now \in Times, dbOk \in BOOLEAN :
        IF ~dbOk
        THEN /\ hPc' = "failed"
             /\ UNCHANGED <<checkpoint, cpRead, after, latestDate, chan, again,
                            senderDropped, fetched, anyKept, fetchFailed, hMode, hAsserts>>
        ELSE /\ cpRead' = checkpoint
             /\ after' = saturating_sub(UnwrapOr(checkpoint, now), Hour)
             /\ latestDate' = after'
             /\ chan' = <<>>
             /\ again' = TRUE
             /\ senderDropped' = FALSE
             /\ fetched' = 0
             /\ anyKept' = FALSE
             /\ fetchFailed' = FALSE
             /\ hMode' = "incremental"
             /\ hAsserts' = <<>>
             /\ hPc' = "running"
             /\ UNCHANGED checkpoint

\* One iteration of the producer's loop when the fetch succeeds.
ProducerPage ==
    /\ UNCHANGED nonHarvestVars
    /\ hPc = "running" /\ again /\ ~senderDropped
    /\ hMode = "incremental"
    /\ \E items \in PagesUpTo(MaxItems - fetched) :
        LET wanted == wanted_items(items, after) IN
        /\ again' = (Len(items) # 0 /\ Len(wanted) # 0)
        /\ chan' = chan \o wanted
        /\ fetched' = fetched + Len(items)
        /\ anyKept' = (anyKept \/ Len(wanted) # 0)
    /\ UNCHANGED <<checkpoint, hPc, cpRead, after, latestDate, senderDropped, fetchFailed,
                   hMode, hAsserts>>

\* One iteration of the producer's loop when the fetch fails after retries.
ProducerFetchError ==
    /\ UNCHANGED nonHarvestVars
    /\ hPc = "running" /\ again /\ ~senderDropped
    /\ again' = FALSE
    /\ fetchFailed' = TRUE
    /\ UNCHANGED <<checkpoint, hPc, cpRead, after, latestDate, chan, senderDropped,
                   fetched, anyKept, hMode, hAsserts>>

\* The producer leaves its loop and returns Ok(()): the Sender is dropped.
ProducerReturn ==
    /\ UNCHANGED nonHarvestVars
    /\ hPc = "running" /\ ~again /\ ~senderDropped
    /\ senderDropped' = TRUE
    /\ UNCHANGED <<checkpoint, hPc, cpRead, after, latestDate, chan, again,
                   fetched, anyKept, fetchFailed, hMode, hAsserts>>

\* assert_metadata as the harvester calls it, with a reason: the reason of
\* the row it hands to insert_metadata_assertion.
assert_metadata_reason(reason) == reason

\* The latest_date of the consumer after it has received `item`.
LatestAfter(item, latest) ==
    IF IsSome(get_index_date(item))
    THEN Max2(Unwrap(get_index_date(item)), latest)
    ELSE latest

\* The consumer takes one item off the channel; assert_metadata may fail,
\* and the `?` then ends the run with Err, dropping both transactions.
ConsumerReceive ==
    /\ UNCHANGED nonHarvestVars
    /\ hPc = "running" /\ Len(chan) > 0
    /\ hMode = "incremental"
    /\ LET item == Head(chan) IN
       \E insertOk \in BOOLEAN :
        /\ chan' = Tail(chan)
        /\ latestDate' = LatestAfter(item, latestDate)
        /\ hAsserts' = IF IsSome(get_index_date(item)) /\ item.doi
                       THEN Append(hAsserts, assert_metadata_reason("Primary"))
                       ELSE hAsserts
        /\ hPc' = IF IsSome(get_index_date(item)) /\ item.doi /\ ~insertOk
                  THEN "failed" ELSE "running"
    /\ UNCHANGED <<checkpoint, cpRead, after, again, senderDropped, fetched,
                   anyKept, fetchFailed, hMode>>

\* The value set_checkpoint is given: what harvest_recently_indexed returned.
new_after == latestDate

\* The channel is closed and empty: the consumer commits its transaction,
\* joins the producer, and poll_newly_indexed_data writes the checkpoint and
\* commits (or fails on one of these database calls).
HarvestFinish ==
    /\ UNCHANGED nonHarvestVars
    /\ hPc = "running" /\ Len(chan) = 0 /\ senderDropped
    /\ hMode = "incremental"
    /\ \E dbOk \in BOOLEAN :
        IF dbOk
        THEN /\ checkpoint' = Some(new_after)
             /\ hPc' = "done"
        ELSE /\ hPc' = "failed"
             /\ UNCHANGED checkpoint
    /\ UNCHANGED <<cpRead, after, latestDate, chan, again, senderDropped, fetched,
                   anyKept, fetchFailed, hMode, hAsserts>>

\* The run has returned; the next invocation starts a new run.
HarvestReturn ==
    /\ UNCHANGED nonHarvestVars
    /\ hPc \in {"done", "failed"}
    /\ hPc' = "idle"
    /\ cpRead' = None
    /\ after' = MinTime
    /\ latestDate' = MinTime
    /\ chan' = <<>>
    /\ again' = FALSE
    /\ senderDropped' = FALSE
    /\ fetched' = 0
    /\ anyKept' = FALSE
    /\ fetchFailed' = FALSE
    /\ hMode' = "incremental"
    /\ hAsserts' = <<>>
    /\ UNCHANGED checkpoint

\* A scan that passes Primary whatever it harvests.
ReasonAlwaysPrimary == "Primary"

\* harvest_secondary_with_filter: the reason it passes to assert_metadata.
FilterReason == "Secondary"

\* fetch_secondary_metadata_with_filter: begin, and
\* harvest_secondary_with_filter up to the spawn of the producer.
FilterBegin ==
    /\ UNCHANGED nonHarvestVars
    /\ hPc = "idle"
    /\ \E dbOk \in BOOLEAN :
        IF ~dbOk
        THEN /\ hPc' = "failed"
             /\ UNCHANGED <<chan, again, hMode>>
        ELSE /\ chan' = <<>>
             /\ again' = TRUE
             /\ hMode' = "filter"
             /\ hPc' = "running"
    /\ UNCHANGED <<checkpoint, cpRead, after, latestDate, senderDropped, fetched,
                   anyKept, fetchFailed, hAsserts>>

\* harvest_with_filter_to_chan: one iteration of the loop when the fetch
\* succeeds.  Every item of the page is sent.
FilterPage ==
    /\ UNCHANGED nonHarvestVars
    /\ hPc = "running" /\ again /\ ~senderDropped
    /\ hMode = "filter"
    /\ \E items \in PagesUpTo(MaxItems - fetched) :
        /\ again' = (Len(items) # 0)
        /\ chan' = chan \o items
        /\ fetched' = fetched + Len(items)
    /\ UNCHANGED <<checkpoint, hPc, cpRead, after, latestDate, senderDropped, anyKept,
                   fetchFailed, hMode, hAsserts>>

\* The consumer of harvest_secondary_with_filter takes one item off the
\* channel; an item with a string DOI is passed to assert_metadata, whose
\* failure ends the run with Err.
FilterReceive ==
    /\ UNCHANGED nonHarvestVars
    /\ hPc = "running" /\ Len(chan) > 0
    /\ hMode = "filter"
    /\ LET item == Head(chan) IN
       \E insertOk \in BOOLEAN :
        /\ chan' = Tail(chan)
        /\ hAsserts' = IF item.doi
                       THEN Append(hAsserts, assert_metadata_reason(FilterReason))
                       ELSE hAsserts
        /\ hPc' = IF item.doi /\ ~insertOk THEN "failed" ELSE "running"
    /\ UNCHANGED <<checkpoint, cpRead, after, latestDate, again, senderDropped, fetched,
                   anyKept, fetchFailed, hMode>>

\* The channel is closed and empty: the consumer commits, joins the
\* producer, and fetch_secondary_metadata_with_filter commits its own
\* transaction (or one of these fails).  No checkpoint is written.
FilterFinish ==
    /\ UNCHANGED nonHarvestVars
    /\ hPc = "running" /\ Len(chan) = 0 /\ senderDropped
    /\ hMode = "filter"
    /\ \E dbOk \in BOOLEAN : hPc' = IF dbOk THEN "done" ELSE "failed"
    /\ UNCHANGED <<checkpoint, cpRead, after, latestDate, chan, again, senderDropped,
                   fetched, anyKept, fetchFailed, hMode, hAsserts>>

HarvestInit ==
    /\ checkpoint = None
    /\ hPc = "idle"
    /\ cpRead = None
    /\ after = MinTime
    /\ latestDate = MinTime
    /\ chan = <<>>
    /\ again = FALSE
    /\ senderDropped = FALSE
    /\ fetched = 0
    /\ anyKept = FALSE
    /\ fetchFailed = FALSE
    /\ hMode = "incremental"
    /\ hAsserts = <<>>

HarvestNext ==
    \/ HarvestBegin
    \/ ProducerPage
    \/ ProducerFetchError
    \/ ProducerReturn
    \/ ConsumerReceive
    \/ HarvestFinish
    \/ HarvestReturn
    \/ FilterBegin
    \/ FilterPage
    \/ FilterReceive
    \/ FilterFinish

(***************************************************************************)
(* Identifier resolver.                                                    *)
(***************************************************************************)
Procs == 1..NumProcs

Doi(n) == [type |-> "doi", value |-> n]
Orcid(n) == [type |-> "orcid", value |-> n]

\* The identifiers that callers outside the pumps resolve.
CallerIdentifiers == {Doi(n) : n \in 1..NumIdents}

NoCall == [step |-> "none", ident |-> None, ret |-> None, inserted |-> FALSE]

EntityRows(ident) == {e \in entity : e.identifier = ident}

\* ON CONFLICT (identifier_type, identifier): a row with this pair exists.
InsertConflictNone(ident) == FALSE
InsertConflict(ident) == EntityRows(ident) # {}

\* resolve_identifier is entered with `ident`.
BeginResolve(p, ident) ==
    rcall' = [rcall EXCEPT ![p] = [step |-> "insert", ident |-> Some(ident), ret |-> None,
                                   inserted |-> FALSE]]

\* The first statement: INSERT .. ON CONFLICT DO NOTHING RETURNING entity_id.
\* A returned row ends the call; no row sends it on to the SELECT; a
\* transport error ends it with Err.
ResolveInsert(p) ==
    /\ UNCHANGED nonResolveVars
    /\ rcall[p].step = "insert"
    /\ LET ident == Unwrap(rcall[p].ident) IN
       \E dbOk \in BOOLEAN :
        IF ~dbOk
        THEN /\ rcall' = [rcall EXCEPT ![p].step = "error"]
             /\ UNCHANGED <<entity, entitySeq>>
        ELSE IF InsertConflict(ident)
        THEN /\ rcall' = [rcall EXCEPT ![p].step = "select"]
             /\ UNCHANGED <<entity, entitySeq>>
        ELSE /\ entitySeq' = entitySeq + 1
             /\ entity' = entity \cup {[entity_id |-> entitySeq + 1, identifier |-> ident]}
             /\ rcall' = [rcall EXCEPT ![p].step = "done", ![p].ret = Some(entitySeq + 1),
                                       ![p].inserted = TRUE]
    /\ UNCHANGED returned

\* The second statement: SELECT entity_id .. fetch_one. No row is an error.
ResolveSelect(p) ==
    /\ UNCHANGED nonResolveVars
    /\ rcall[p].step = "select"
    /\ LET ident == Unwrap(rcall[p].ident) IN
       \E dbOk \in BOOLEAN :
        IF ~dbOk \/ EntityRows(ident) = {}
        THEN rcall' = [rcall EXCEPT ![p].step = "error"]
        ELSE \E row \in EntityRows(ident) :
                rcall' = [rcall EXCEPT ![p].step = "done", ![p].ret = Some(row.entity_id)]
    /\ UNCHANGED <<entity, entitySeq, returned>>

\* What a finished call hands to its caller, added to the record of results.
ReturnedWith(p) ==
    IF rcall[p].step = "done"
    THEN returned \cup {[identifier |-> Unwrap(rcall[p].ident), entity_id |-> Unwrap(rcall[p].ret)]}
    ELSE returned

\* A caller outside the pumps (load_events_from_disk, assert_metadata, the
\* API) resolves some identifier.
CallResolve(p) ==
    /\ UNCHANGED nonResolveVars
    /\ rcall[p].step = "none"
    /\ \E ident \in CallerIdentifiers : BeginResolve(p, ident)
    /\ UNCHANGED <<entity, entitySeq, returned>>

CallReturn(p) ==
    /\ UNCHANGED nonResolveVars
    /\ rcall[p].step \in {"done", "error"}
    /\ returned' = ReturnedWith(p)
    /\ rcall' = [rcall EXCEPT ![p] = NoCall]
    /\ UNCHANGED <<entity, entitySeq>>

ResolveInit ==
    /\ entity = {}
    /\ entitySeq = 0
    /\ rcall = [p \in Procs |-> NoCall]
    /\ returned = {}

ResolveNext ==
    \/ \E p \in Procs : CallResolve(p)
    \/ \E p \in Procs : ResolveInsert(p)
    \/ \E p \in Procs : ResolveSelect(p)
    \/ \E p \in Procs : CallReturn(p)

(***************************************************************************)
(* Extractor: drain, pump_n and the assertion queue.                       *)
(***************************************************************************)
\* event_extraction::service::BATCH_SIZE
BATCH_SIZE == 1

\* The parsed body of a Crossref work, as far as extract_events reads it:
\* for each author entry its ORCID, for each isbn-type entry its value and for
\* each reference entry its DOI, None where the field is absent or no string.
BodyCiting == [author |-> <<>>, isbn |-> <<>>, reference |-> <<Some(Doi(0)), None>>]

\* The assertions the harvester enqueues: a source and a json text, None
\* standing for a text that does not parse.
AssertionShapes ==
    {[source_id |-> "crossref", json |-> None],
     [source_id |-> "crossref", json |-> Some(BodyCiting)]}

NewEvent(analyzer, assertion, object) ==
    [analyzer |-> analyzer, subject_id |-> Some(assertion.subject),
     object_id |-> object, assertion_id |-> assertion.assertion_id]

lifecycle(assertion) == <<NewEvent("lifecycle", assertion, None)>>

\* One event per entry of `entries` that has an identifier, in order.
ObjectEvents(analyzer, assertion, entries) ==
    LET present == SelectSeq(entries, IsSome) IN
    [i \in 1..Len(present) |-> NewEvent(analyzer, assertion, present[i])]

orcid(json, assertion) == ObjectEvents("contribution", assertion, json.author)
isbn(json, assertion) == ObjectEvents("identifier", assertion, json.isbn)
references(json, assertion) == ObjectEvents("reference", assertion, json.reference)

extract_events(assertion, maybe_json) ==
    IF assertion.source_id = "crossref" /\ IsSome(maybe_json)
    THEN lifecycle(assertion) \o orcid(Unwrap(maybe_json), assertion)
         \o isbn(Unwrap(maybe_json), assertion) \o references(Unwrap(maybe_json), assertion)
    ELSE <<>>

\* A conversion that gives up at the first assertion it gets no event from.
RECURSIVE metadata_assertions_until_empty(_)
metadata_assertions_until_empty(batch) ==
    IF batch = <<>> THEN <<>>
    ELSE LET first == extract_events(Head(batch), Head(batch).json) IN
         IF first = <<>> THEN <<>>
         ELSE first \o metadata_assertions_until_empty(Tail(batch))

RECURSIVE metadata_assertions_to_events(_)
metadata_assertions_to_events(batch) ==
    IF batch = <<>> THEN <<>>
    ELSE extract_events(Head(batch), Head(batch).json)
         \o metadata_assertions_to_events(Tail(batch))

\* The queue rows, lowest queue_id first.
RECURSIVE OrderByQueueId(_)
OrderByQueueId(rows) ==
    IF rows = {} THEN <<>>
    ELSE LET first == CHOOSE r \in rows : \A o \in rows : r.queue_id <= o.queue_id
         IN <<first>> \o OrderByQueueId(rows \ {first})

Limit(seq, n) == SubSeq(seq, 1, IF Len(seq) < n THEN Len(seq) ELSE n)

\* FOR UPDATE SKIP LOCKED: rows another open transaction has locked are passed over.
SkipLockedNone(w) == queue
SkipLocked(w) == {r \in queue : \A o \in Procs \ {w} : r \notin locked[o]}

\* The rows poll_assertions selects, locks and deletes in w's transaction.
poll_assertions(limit, w) == Limit(OrderByQueueId(SkipLocked(w)), limit)

\* The MetadataQueueEntry of a queue row: the join with metadata_assertion and entity.
QueueEntry(row) == assertions[row.assertion_id]

SeqToSet(seq) == {seq[i] : i \in 1..Len(seq)}

\* Any metadata assertion on the entity, as seen through the pool: committed rows only.
has_metadata_assertion(entity_id) ==
    \/ \E i \in 1..Len(assertions) : assertions[i].subject_entity_id = entity_id
    \/ entity_id \in secondary

\* The assertions of the caller's transaction after ensure_metadata_assertion,
\* `tx` being those before: a DOI without any committed assertion is fetched
\* and, when the fetch succeeds, asserted inside the transaction.
ensure_metadata_assertion(identifier, entity_id, tx, fetchOk) ==
    IF ~has_metadata_assertion(entity_id) /\ identifier.type = "doi" /\ fetchOk
    THEN tx \cup {entity_id}
    ELSE tx

\* The entity table after w's transaction is rolled back: resolve_identifier
\* wrote through the pool, so its rows stay.
EntityRolledBackWithTx(w) == entity \ alloc[w]
EntityAfterRollback(w) == entity

\* The event table after w's transaction is rolled back, and after it commits.
EventsKeptOnRollback(w) == events (+) SetToBag(SeqToSet(txEvents[w]))
EventsAfterRollback(w) == events
EventsAfterCommit(w) == events (+) SetToBag(SeqToSet(txEvents[w]))

ClearTx(w) ==
    /\ locked' = [locked EXCEPT ![w] = {}]
    /\ todo' = [todo EXCEPT ![w] = <<>>]
    /\ subjId' = [subjId EXCEPT ![w] = None]
    /\ objId' = [objId EXCEPT ![w] = None]
    /\ txEvents' = [txEvents EXCEPT ![w] = <<>>]
    /\ txSecondary' = [txSecondary EXCEPT ![w] = {}]
    /\ alloc' = [alloc EXCEPT ![w] = {}]

\* pump_n returns Err: the transaction is dropped, which rolls it back, and
\* drain returns the error.
Rollback(w) ==
    /\ ClearTx(w)
    /\ entity' = EntityAfterRollback(w)
    /\ events' = EventsAfterRollback(w)
    /\ rolledBack' = rolledBack \cup {[row |-> e, polled |-> locked[w]] : e \in alloc[w]}
    /\ wpc' = [wpc EXCEPT ![w] = "done"]
    /\ UNCHANGED <<assertions, queue, secondary, entitySeq, reResolved>>

\* The harvester commits a Primary assertion about work `a`: the subject is
\* resolved, the row inserted and a queue row created for it.
Enqueue ==
    /\ UNCHANGED <<nonExtractVars, callVars>>
    /\ Len(assertions) < MaxAssertions
    /\ \E shape \in AssertionShapes :
        LET a == Len(assertions) + 1
            known == EntityRows(Doi(a))
            id == IF known = {} THEN entitySeq + 1
                  ELSE (CHOOSE e \in known : TRUE).entity_id
        IN
        /\ entity' = entity \cup {[entity_id |-> id, identifier |-> Doi(a)]}
        /\ entitySeq' = IF known = {} THEN entitySeq + 1 ELSE entitySeq
        /\ assertions' = Append(assertions,
                [assertion_id |-> a, source_id |-> shape.source_id, json |-> shape.json,
                 subject |-> Doi(a), subject_entity_id |-> id])
        /\ queue' = queue \cup {[queue_id |-> a, assertion_id |-> a]}
    /\ UNCHANGED <<events, secondary, wpc, locked, todo, subjId, objId,
                   txEvents, txSecondary, alloc, rolledBack, reResolved>>

\* drain is in its loop and pump_n begins a transaction and polls.
PumpBegin(w) ==
    /\ UNCHANGED <<nonExtractVars, callVars>>
    /\ wpc[w] = "loop"
    /\ \E dbOk \in BOOLEAN :
        IF ~dbOk
        THEN Rollback(w)
        ELSE LET rows == poll_assertions(BATCH_SIZE, w)
                 batch == [i \in 1..Len(rows) |-> QueueEntry(rows[i])]
                 evs == metadata_assertions_to_events(batch)
             IN
             /\ locked' = [locked EXCEPT ![w] = SeqToSet(rows)]
             /\ todo' = [todo EXCEPT ![w] = evs]
             /\ wpc' = [wpc EXCEPT ![w] = IF evs = <<>> THEN "commit" ELSE "subject"]
             /\ UNCHANGED <<entity, entitySeq, assertions, queue, events, secondary, subjId, objId, txEvents, txSecondary, alloc, rolledBack,
                            reResolved>>

\* The stage of pump_n's loop body after resolving at `stage` for event `ev`:
\* an event without object has no object to resolve.
AfterStage(stage, ev) ==
    IF stage = "subject" /\ IsSome(ev.object_id) THEN "object" ELSE "ensure"

\* The identifier pump_n resolves at the stage w is in.
StageIdentifier(w) ==
    IF wpc[w] \in {"subject", "subjectSelect"} THEN Head(todo[w]).subject_id
    ELSE Head(todo[w]).object_id

StageOf(w) == IF wpc[w] \in {"subject", "subjectSelect"} THEN "subject" ELSE "object"

\* resolve_identifier returns Ok(id) to pump_n, having created the row or not.
ResolveOk(w, id, created) ==
    LET ident == Unwrap(StageIdentifier(w))
        row == [entity_id |-> id, identifier |-> ident]
    IN
    /\ subjId' = IF StageOf(w) = "subject" THEN [subjId EXCEPT ![w] = Some(id)] ELSE subjId
    /\ objId' = IF StageOf(w) = "object" THEN [objId EXCEPT ![w] = Some(id)] ELSE objId
    /\ alloc' = [alloc EXCEPT ![w] = IF created THEN alloc[w] \cup {row} ELSE alloc[w]]
    /\ reResolved' = IF \E r \in rolledBack : r.row.identifier = ident
                     THEN reResolved \cup {row} ELSE reResolved
    /\ wpc' = [wpc EXCEPT ![w] = AfterStage(StageOf(w), Head(todo[w]))]

\* pump_n calls resolve_identifier for the subject (or object) of the event
\* in hand, which runs its INSERT on the pool: the new row is returned, or a
\* conflict sends the call on to its SELECT, or the statement fails and the
\* `?` ends pump_n.
PumpResolve(w) ==
    /\ UNCHANGED <<nonExtractVars, callVars>>
    /\ wpc[w] \in {"subject", "object"}
    /\ IsSome(StageIdentifier(w))
    /\ \E dbOk \in BOOLEAN :
        IF ~dbOk
        THEN Rollback(w)
        ELSE IF InsertConflict(Unwrap(StageIdentifier(w)))
        THEN /\ wpc' = [wpc EXCEPT ![w] = IF wpc[w] = "subject" THEN "subjectSelect"
                                          ELSE "objectSelect"]
             /\ UNCHANGED <<entity, entitySeq, assertions, queue, events, secondary,
                            locked, todo, subjId, objId, txEvents, txSecondary,
                            alloc, rolledBack, reResolved>>
        ELSE /\ entitySeq' = entitySeq + 1
             /\ entity' = entity \cup {[entity_id |-> entitySeq + 1,
                                        identifier |-> Unwrap(StageIdentifier(w))]}
             /\ ResolveOk(w, entitySeq + 1, TRUE)
             /\ UNCHANGED <<assertions, queue, events, secondary, locked, todo,
                            txEvents, txSecondary, rolledBack>>

\* The SELECT of the resolve_identifier call pump_n is waiting for.
PumpResolveSelect(w) ==
    /\ UNCHANGED <<nonExtractVars, callVars>>
    /\ wpc[w] \in {"subjectSelect", "objectSelect"}
    /\ \E dbOk \in BOOLEAN :
        IF ~dbOk \/ EntityRows(Unwrap(StageIdentifier(w))) = {}
        THEN Rollback(w)
        ELSE \E row \in EntityRows(Unwrap(StageIdentifier(w))) :
             /\ ResolveOk(w, row.entity_id, FALSE)
             /\ UNCHANGED <<entity, entitySeq, assertions, queue, events, secondary,
                            locked, todo, txEvents, txSecondary, rolledBack>>

\* The rows of w's transaction after the two if-let blocks of pump_n: the
\* subject is ensured, then the object, each when identifier and id are there.
EnsureBoth(w, ev, fetchSubject, fetchObject) ==
    LET afterSubject ==
            IF IsSome(ev.subject_id) /\ IsSome(subjId[w])
            THEN ensure_metadata_assertion(Unwrap(ev.subject_id), Unwrap(subjId[w]),
                                           txSecondary[w], fetchSubject)
            ELSE txSecondary[w]
    IN  IF IsSome(ev.object_id) /\ IsSome(objId[w])
        THEN ensure_metadata_assertion(Unwrap(ev.object_id), Unwrap(objId[w]),
                                       afterSubject, fetchObject)
        ELSE afterSubject

\* ensure_metadata_assertion for the subject and for the object, then
\* insert_event in the transaction, or its failure and the `?`.
PumpInsertEvent(w) ==
    /\ UNCHANGED <<nonExtractVars, callVars>>
    /\ wpc[w] = "ensure"
    /\ \E dbOk, fetchSubject, fetchObject \in BOOLEAN :
        IF ~dbOk
        THEN Rollback(w)
        ELSE LET ev == Head(todo[w]) IN
             /\ txSecondary' = [txSecondary EXCEPT ![w] =
                    EnsureBoth(w, ev, fetchSubject, fetchObject)]
             /\ txEvents' = [txEvents EXCEPT ![w] = Append(txEvents[w],
                    [ord |-> Len(txEvents[w]) + 1, analyzer |-> ev.analyzer,
                     assertion_id |-> ev.assertion_id,
                     subject_entity_id |-> subjId[w], object_entity_id |-> objId[w]])]
             /\ todo' = [todo EXCEPT ![w] = Tail(todo[w])]
             /\ subjId' = [subjId EXCEPT ![w] = None]
             /\ objId' = [objId EXCEPT ![w] = None]
             /\ wpc' = [wpc EXCEPT ![w] = IF Tail(todo[w]) = <<>> THEN "commit" ELSE "subject"]
             /\ UNCHANGED <<entity, entitySeq, assertions, queue, events, secondary, locked, alloc, rolledBack, reResolved>>

\* count_processed: the number of assertions w's pump polled.
count_processed(w) == Cardinality(locked[w])

\* tx.commit(): the deletion of the polled queue rows, the events and the
\* assertions of the transaction become visible together; pump_n returns Ok,
\* drain assigns count_processed to count and tests `count >= BATCH_SIZE`: a
\* full page takes the next turn, a page that was not full ends drain. Or
\* the commit fails.
PumpCommit(w) ==
    /\ UNCHANGED <<nonExtractVars, callVars>>
    /\ wpc[w] = "commit"
    /\ \E dbOk \in BOOLEAN :
        IF ~dbOk
        THEN Rollback(w)
        ELSE /\ queue' = queue \ locked[w]
             /\ events' = EventsAfterCommit(w)
             /\ secondary' = secondary \cup txSecondary[w]
             /\ ClearTx(w)
             /\ wpc' = [wpc EXCEPT ![w] = IF count_processed(w) >= BATCH_SIZE THEN "loop"
                                          ELSE "done"]
             /\ UNCHANGED <<entity, entitySeq, assertions, rolledBack, reResolved>>

\* Every drain task of the stage has returned; a later scheduled run of
\* --extract spawns them again.
StageRestart ==
    /\ UNCHANGED <<nonExtractVars, callVars>>
    /\ \A w \in Procs : wpc[w] = "done"
    /\ wpc' = [w \in Procs |-> "loop"]
    /\ UNCHANGED <<entity, entitySeq, assertions, queue, events, secondary, locked, todo,
                   subjId, objId, txEvents, txSecondary, alloc, rolledBack, reResolved>>

ExtractInit ==
    /\ assertions = <<>>
    /\ queue = {}
    /\ events = EmptyBag
    /\ secondary = {}
    /\ wpc = [w \in Procs |-> "loop"]
    /\ locked = [w \in Procs |-> {}]
    /\ todo = [w \in Procs |-> <<>>]
    /\ subjId = [w \in Procs |-> None]
    /\ objId = [w \in Procs |-> None]
    /\ txEvents = [w \in Procs |-> <<>>]
    /\ txSecondary = [w \in Procs |-> {}]
    /\ alloc = [w \in Procs |-> {}]
    /\ rolledBack = {}
    /\ reResolved = {}

ExtractNext ==
    \/ Enqueue
    \/ \E w \in Procs : PumpBegin(w)
    \/ \E w \in Procs : PumpResolve(w)
    \/ \E w \in Procs : PumpResolveSelect(w)
    \/ \E w \in Procs : PumpInsertEvent(w)
    \/ \E w \in Procs : PumpCommit(w)
    \/ StageRestart

(***************************************************************************)
(* Executor: service::drain and try_pump over the event queue.             *)
(***************************************************************************)
\* service::EXECUTE_BATCH_SIZE
EXECUTE_BATCH_SIZE == 100

\* The handler sources that are ever loaded: one whose f returns one
\* element for each event, and one whose f returns the empty array.
HandlerRows == {[handler_id |-> 1, code |-> "echo"], [handler_id |-> 2, code |-> "silent"]}

\* The results run_all returns for one handler, as far as the pump is concerned.
HandlerResults(h, evs) ==
    IF h.code = "echo"
    THEN {[handler_id |-> h.handler_id, event_id |-> evs[i], output |-> Some("element"),
           error |-> None] : i \in 1..Len(evs)}
    ELSE {}

RunAllResults(hs, evs) == UNION {HandlerResults(h, evs) : h \in hs}

\* The event-queue rows, lowest event_queue_id first.
RECURSIVE OrderByEventQueueId(_)
OrderByEventQueueId(rows) ==
    IF rows = {} THEN <<>>
    ELSE LET first == CHOOSE r \in rows : \A o \in rows : r.event_queue_id <= o.event_queue_id
         IN <<first>> \o OrderByEventQueueId(rows \ {first})

\* FOR UPDATE SKIP LOCKED on event_queue.
EventSkipLocked(p) == {r \in eventQueue : \A o \in Procs \ {p} : r \notin xlocked[o]}

\* The rows db::event::poll selects, locks and deletes in p's transaction.
poll(limit, p) == Limit(OrderByEventQueueId(EventSkipLocked(p)), limit)

\* A read that gives the newest enabled handler only.
get_newest_enabled_handler ==
    {h \in handlerTable : \A o \in handlerTable : h.handler_id >= o.handler_id}

\* get_all_enabled_handlers, read inside the transaction.
get_all_enabled_handlers == handlerTable

\* The tables after p's transaction is rolled back, and after it commits.
ResultsKeptOnRollback(p) == results (+) SetToBag(xsaved[p])
ResultsAfterRollback(p) == results
ResultsAfterCommit(p) == results (+) SetToBag(xsaved[p])
EventQueueAfterCommit(p) == eventQueue \ xlocked[p]

ClearPump(p) ==
    /\ xlocked' = [xlocked EXCEPT ![p] = {}]
    /\ xevents' = [xevents EXCEPT ![p] = <<>>]
    /\ xproduced' = [xproduced EXCEPT ![p] = {}]
    /\ xsaved' = [xsaved EXCEPT ![p] = {}]
    /\ xhandlers' = [xhandlers EXCEPT ![p] = {}]

\* try_pump returns Err: the transaction is dropped, which rolls it back;
\* drain logs the error, sets count to 0 and leaves its loop.
TryPumpErr(p) ==
    /\ ClearPump(p)
    /\ results' = ResultsAfterRollback(p)
    /\ aborted' = IF xproduced[p] # {} THEN aborted \cup SeqToSet(xevents[p]) ELSE aborted
    /\ xpc' = [xpc EXCEPT ![p] = "returned"]
    /\ UNCHANGED <<eventQueue, eventSeq, handlerTable, delivered, offered, owed>>

\* An event row is committed, and the event_queue row for it.
EventArrives ==
    /\ UNCHANGED nonExecuteVars
    /\ eventSeq < MaxEvents
    /\ eventSeq' = eventSeq + 1
    /\ eventQueue' = eventQueue \cup {[event_queue_id |-> eventSeq + 1, event_id |-> eventSeq + 1]}
    /\ UNCHANGED <<handlerTable, results, xpc, xlocked, xevents, xproduced, xhandlers, xsaved,
                   delivered, offered, owed, aborted>>

\* load_handler stores a new source as an enabled handler.
LoadHandler ==
    /\ UNCHANGED nonExecuteVars
    /\ \E h \in HandlerRows \ handlerTable :
        /\ \A o \in HandlerRows : o.handler_id < h.handler_id => o \in handlerTable
        /\ handlerTable' = handlerTable \cup {h}
    /\ UNCHANGED <<eventQueue, eventSeq, results, xpc, xlocked, xevents, xproduced, xhandlers,
                   xsaved, delivered, offered, owed, aborted>>

\* An executor process enters drain, or drain takes another turn of its
\* loop: try_pump begins a transaction and polls.
TryPumpPoll(p) ==
    /\ UNCHANGED nonExecuteVars
    /\ xpc[p] \in {"returned", "loop"}
    /\ \E dbOk \in BOOLEAN :
        IF ~dbOk
        THEN TryPumpErr(p)
        ELSE LET rows == poll(EXECUTE_BATCH_SIZE, p) IN
             /\ xlocked' = [xlocked EXCEPT ![p] = SeqToSet(rows)]
             /\ xevents' = [xevents EXCEPT ![p] = [i \in 1..Len(rows) |-> rows[i].event_id]]
             /\ xpc' = [xpc EXCEPT ![p] = "polled"]
             /\ UNCHANGED <<eventQueue, eventSeq, handlerTable, results, xproduced, xhandlers, xsaved,
                            delivered, offered, owed, aborted>>

\* get_all_enabled_handlers in the transaction, run_all over the handlers
\* and the polled events, then save_results, which inserts every result in
\* the transaction; or one of the two fails and the `?`.
TryPumpRun(p) ==
    /\ UNCHANGED nonExecuteVars
    /\ xpc[p] = "polled"
    /\ \E listOk, saveOk \in BOOLEAN :
        LET produced == IF listOk THEN RunAllResults(get_all_enabled_handlers, xevents[p])
                        ELSE {}
        IN
        IF ~listOk \/ ~saveOk
        THEN /\ ClearPump(p)
             /\ results' = ResultsAfterRollback(p)
             /\ aborted' = IF produced # {} THEN aborted \cup SeqToSet(xevents[p]) ELSE aborted
             /\ xpc' = [xpc EXCEPT ![p] = "returned"]
             /\ UNCHANGED <<eventQueue, eventSeq, handlerTable, delivered, offered, owed>>
        ELSE /\ xproduced' = [xproduced EXCEPT ![p] = produced]
             /\ xhandlers' = [xhandlers EXCEPT ![p] = handlerTable]
             /\ xsaved' = [xsaved EXCEPT ![p] = produced]
             /\ xpc' = [xpc EXCEPT ![p] = "saved"]
             /\ UNCHANGED <<eventQueue, eventSeq, handlerTable, results, xlocked,
                            xevents, delivered, offered, owed, aborted>>

\* tx.commit(): the deletion of the polled queue rows and the results become
\* visible together; try_pump returns Ok, drain assigns events_processed to
\* count and tests `count >= EXECUTE_BATCH_SIZE`. Or the commit fails.
TryPumpCommit(p) ==
    /\ UNCHANGED nonExecuteVars
    /\ xpc[p] = "saved"
    /\ \E dbOk \in BOOLEAN :
        IF ~dbOk
        THEN TryPumpErr(p)
        ELSE /\ eventQueue' = EventQueueAfterCommit(p)
             /\ results' = ResultsAfterCommit(p)
             /\ delivered' = delivered \cup SeqToSet(xevents[p])
             /\ offered' = [e \in DOMAIN offered \cup SeqToSet(xevents[p]) |->
                                IF e \in DOMAIN offered THEN offered[e] ELSE xhandlers[p]]
             /\ owed' = owed (+) SetToBag(xproduced[p])
             /\ ClearPump(p)
             /\ xpc' = [xpc EXCEPT ![p] = IF Len(xevents[p]) >= EXECUTE_BATCH_SIZE
                                          THEN "loop" ELSE "returned"]
             /\ UNCHANGED <<eventSeq, handlerTable, aborted>>

ExecuteInit ==
    /\ eventQueue = {}
    /\ eventSeq = 0
    /\ handlerTable = {}
    /\ results = EmptyBag
    /\ xpc = [p \in Procs |-> "returned"]
    /\ xlocked = [p \in Procs |-> {}]
    /\ xevents = [p \in Procs |-> <<>>]
    /\ xproduced = [p \in Procs |-> {}]
    /\ xsaved = [p \in Procs |-> {}]
    /\ delivered = {}
    /\ xhandlers = [p \in Procs |-> {}]
    /\ offered = <<>>
    /\ owed = EmptyBag
    /\ aborted = {}

ExecuteNext ==
    \/ EventArrives
    \/ LoadHandler
    \/ \E p \in Procs : TryPumpPoll(p)
    \/ \E p \in Procs : TryPumpRun(p)
    \/ \E p \in Procs : TryPumpCommit(p)

(***************************************************************************)
(* run_all and its watchdog thread (execution/run.rs).                     *)
(*                                                                         *)
(* The orchestrator is the thread that called run_all; the watchdog is the *)
(* thread it spawns.  They share two channels: watchdog_send_handler       *)
(* carries Some((isolate, handler_id, duration)) to arm and None to        *)
(* disarm, watchdog_send_terminated carries the handler id of every        *)
(* termination back.  An isolate is named by the position of its handler   *)
(* in the list: run_all creates one per turn of its outer loop.            *)
(***************************************************************************)
EXECUTION_TIMEOUT == 10

LOAD_TIMEOUT == 10

\* Handler sources, named by what the JavaScript does.
Codes == {"syntaxError", "throwOnLoad", "loopOnLoad", "noF", "fNotFunction",
          "pair", "empty", "noReturn", "object", "circular", "throws", "loops",
          "onceThenLoops"}

\* v8::Script::compile gives None for source that does not parse.
ScriptCompiles(code) == code # "syntaxError"

\* What the top level of the source does under script.run.
ScriptRun(code) ==
    CASE code = "throwOnLoad" -> "throws"
      [] code = "loopOnLoad" -> "loops"
      [] OTHER -> "completes"

\* The global `f` the top level leaves behind.
GlobalF(code) ==
    CASE code = "noF" -> "missing"
      [] code = "fNotFunction" -> "notFunction"
      [] OTHER -> "function"

\* JavaScript values as v8::json::stringify and serde_json see them.
Undefined == [kind |-> "undefined", elems |-> <<>>]

NotArray == [kind |-> "object", elems |-> <<>>]

JsArray(elems) == [kind |-> "array", elems |-> elems]

\* A value JSON.stringify throws on: an object that refers to itself, a BigInt.
Circular == [kind |-> "circular", elems |-> <<>>]

\* v8::json::stringify: None when JSON.stringify throws, else the JSON text.
stringify(value) == IF value.kind = "circular" THEN None ELSE Some(value)

\* A call of f that throws, and one that never returns.
Throws == [kind |-> "throws", elems |-> <<>>]

Loops == [kind |-> "loops", elems |-> <<>>]

\* What the n-th call of f in one isolate does: Throws, Loops, or the value
\* it returns.  The isolate keeps the globals between calls.
CallF(code, n) ==
    CASE code = "pair" -> JsArray(<<"a", "b">>)
      [] code = "empty" -> JsArray(<<>>)
      [] code = "noReturn" -> Undefined
      [] code = "object" -> NotArray
      [] code = "circular" -> Circular
      [] code = "throws" -> Throws
      [] code = "loops" -> Loops
      [] code = "onceThenLoops" -> IF n = 1 THEN JsArray(<<"a">>) ELSE Loops
      [] OTHER -> Undefined

\* The handler lists and event lists run_all is called with.  Handler ids
\* and event ids are database keys: distinct within a list.
\* Lists in which at most one handler is not the well-behaved "pair".
HandlerLists ==
    {codes \in UNION {[1..n -> Codes] : n \in 0..MaxHandlers} :
        Cardinality({i \in 1..Len(codes) : codes[i] # "pair"}) <= 1}

HandlerSpecs(codes) == [i \in 1..Len(codes) |-> [handler_id |-> i, code |-> codes[i]]]

EventJsons == {"object", "notObject"}

\* Lists in which at most one event does not hydrate.
EventLists ==
    {jsons \in UNION {[1..n -> EventJsons] : n \in 0..MaxRunEvents} :
        Cardinality({i \in 1..Len(jsons) : jsons[i] # "object"}) <= 1}

EventsOf(jsons) == [i \in 1..Len(jsons) |-> [event_id |-> 10 + i, json |-> jsons[i]]]

\* Event::to_json_value: Some(json) when the stored json parses as an object.
to_json_value(event) == IF event.json = "object" THEN Some(event.event_id) ELSE None

RECURSIVE FilterHydrated(_)
\* A hydration that keeps every event.
FilterNothing(evs) == evs

FilterHydrated(evs) ==
    IF evs = <<>> THEN <<>>
    ELSE IF IsSome(to_json_value(Head(evs)))
         THEN <<Head(evs)>> \o FilterHydrated(Tail(evs))
         ELSE FilterHydrated(Tail(evs))

report_error_neither(handler_id, event_id, res, message) ==
    Append(res, [event_id |-> event_id, handler_id |-> handler_id,
                 output |-> None, error |-> None])

\* report_error pushes a result with the message as its error.
report_error(handler_id, event_id, res, message) ==
    Append(res, [event_id |-> event_id, handler_id |-> handler_id,
                 output |-> None, error |-> Some(message)])

\* One result per element, the last element first.
RECURSIVE PushOutputsReversed(_, _, _, _)
PushOutputsReversed(handler_spec, event_id, res, elems) ==
    IF elems = <<>> THEN res
    ELSE Append(PushOutputsReversed(handler_spec, event_id, res, Tail(elems)),
                [event_id |-> event_id, handler_id |-> handler_spec.handler_id,
                 output |-> Some(Head(elems)), error |-> None])

RECURSIVE PushOutputs(_, _, _, _)
PushOutputs(handler_spec, event_id, res, elems) ==
    IF elems = <<>> THEN res
    ELSE PushOutputs(handler_spec, event_id,
                     Append(res, [event_id |-> event_id,
                                  handler_id |-> handler_spec.handler_id,
                                  output |-> Some(Head(elems)), error |-> None]),
                     Tail(elems))

\* report_result_output after its stringify(..).unwrap(): "undefined" and
\* anything that is not an array are errors, an array gives one result per
\* element.
report_result_output(handler_spec, event_id, res, result) ==
    LET result_json == Unwrap(stringify(result)) IN
    IF result_json.kind = "undefined"
    THEN report_error(handler_spec.handler_id, event_id, res, "not JSON-serializable")
    ELSE IF result_json.kind = "array"
         THEN PushOutputs(handler_spec, event_id, res, result_json.elems)
         ELSE report_error(handler_spec.handler_id, event_id, res, "failed to parse result")

\* The unwrap() of report_result_output panics when stringify gave None.
StringifyPanics(run) == IsSome(run) /\ ~IsSome(stringify(Unwrap(run)))

load_script_goes_on(handler_spec, res, terminated) ==
    IF ~ScriptCompiles(handler_spec.code)
    THEN <<TRUE, report_error(handler_spec.handler_id, -1, res, "Failed to compile code.")>>
    ELSE IF terminated \/ ScriptRun(handler_spec.code) = "throws"
         THEN <<TRUE, report_error(handler_spec.handler_id, -1, res,
                                   "Failed to load the function")>>
         ELSE <<TRUE, res>>

\* load_script: <<ok, results>>.  script.run gives None when the top level
\* throws and when the isolate is terminated under it.
load_script(handler_spec, res, terminated) ==
    IF ~ScriptCompiles(handler_spec.code)
    THEN <<FALSE, report_error(handler_spec.handler_id, -1, res, "Failed to compile code.")>>
    ELSE IF terminated \/ ScriptRun(handler_spec.code) = "throws"
         THEN <<FALSE, report_error(handler_spec.handler_id, -1, res,
                                    "Failed to load the function")>>
         ELSE <<TRUE, res>>

\* get_f_function: <<found, results>>.
get_f_function(handler_spec, res) ==
    CASE GlobalF(handler_spec.code) = "missing" ->
            <<FALSE, report_error(handler_spec.handler_id, -1, res, "Didn't find named function.")>>
      [] GlobalF(handler_spec.code) = "notFunction" ->
            <<FALSE, report_error(handler_spec.handler_id, -1, res, "'f' was not a function")>>
      [] OTHER -> <<TRUE, res>>

report_terminated_silent(terminated_chan, res) == res

\* report_terminated: one error result per handler id waiting in the
\* terminated channel.
RECURSIVE report_terminated(_, _)
report_terminated(terminated_chan, res) ==
    IF terminated_chan = <<>> THEN res
    ELSE report_terminated(Tail(terminated_chan),
            report_error(Head(terminated_chan), -1, res, "took too long"))

\* The messages of the watchdog_send_handler channel.
Arm(isolate, handler_id, duration) ==
    Some([isolate |-> isolate, handler_id |-> handler_id, duration |-> duration])

\* The JavaScript under way in the current isolate can go on: it is not in
\* an endless loop, or terminate_execution has been called on the isolate.
LoadProceeds ==
    \/ ~ScriptCompiles(handlers[handler_ix].code)
    \/ ScriptRun(handlers[handler_ix].code) # "loops"
    \/ handler_ix \in terminating

CallProceeds ==
    \/ CallF(handlers[handler_ix].code, event_ix) # Loops
    \/ handler_ix \in terminating

\* The orchestrator blocks only in script.run, in function_as_f.call and in
\* join.  Between two of these it runs statements that no step of the
\* watchdog can tell apart in order, so each action below is the return of
\* one of the three followed by the statements up to the next.

\* The start of a turn of the handler loop: a new isolate, and
\* send(Some((handle, handler_id, LOAD_TIMEOUT))).
BeginHandlerTurn(i, hs, ch) ==
    /\ handler_ix' = i
    /\ event_ix' = 1
    /\ handlerChan' = Append(ch, Arm(i, hs[i].handler_id, LOAD_TIMEOUT))
    /\ rpc' = "load"
    /\ UNCHANGED senderGone

\* After the handler loop: drop(watchdog_send_handler), then join.
DropSender(ch) ==
    /\ handlerChan' = ch
    /\ senderGone' = TRUE
    /\ rpc' = "join"
    /\ UNCHANGED <<handler_ix, event_ix>>

\* The end of a turn of the handler loop: report_terminated, the isolate is
\* dropped, and the loop goes on to the next handler or ends.
EndHandlerTurn(res, ch) ==
    /\ runResults' = report_terminated(terminatedChan, res)
    /\ terminatedChan' = <<>>
    /\ terminating' = terminating \ {handler_ix}
    /\ IF handler_ix < Len(handlers)
       THEN BeginHandlerTurn(handler_ix + 1, handlers, ch)
       ELSE DropSender(ch)

\* send(Some((handle, handler_id, EXECUTION_TIMEOUT))) before the call of f
\* on the i-th hydrated event.
ArmCall(i, res, ch) ==
    /\ runResults' = res
    /\ event_ix' = i
    /\ handlerChan' = Append(ch, Arm(handler_ix, handlers[handler_ix].handler_id,
                                       EXECUTION_TIMEOUT))
    /\ rpc' = "call"
    /\ UNCHANGED <<handler_ix, terminatedChan, senderGone>>

\* run_all panics after its send(None): the unwinding drops the sender, the
\* results are lost to the caller.
Panic(ch) ==
    /\ handlerChan' = ch
    /\ senderGone' = TRUE
    /\ rpc' = "panicked"
    /\ UNCHANGED <<handler_ix, event_ix, runResults, terminatedChan, terminating>>

\* try_pump has polled the events, whose queue rows its transaction holds
\* deleted, and read the handlers.  run_all is called: the channels are
\* created, the watchdog thread is spawned, the events are hydrated, and
\* the handler loop is entered.
RunAllCall ==
    /\ UNCHANGED nonRunVars
    /\ rpc = "idle"
    /\ \E codes \in HandlerLists, jsons \in EventLists :
        /\ handlers' = HandlerSpecs(codes)
        /\ runEvents' = EventsOf(jsons)
        /\ hydrated_events' = FilterHydrated(EventsOf(jsons))
        /\ callerTx' = [pc |-> "open", stored |-> <<>>,
                        queued |-> {EventsOf(jsons)[i].event_id : i \in 1..Len(jsons)}]
        /\ IF codes # <<>>
           THEN BeginHandlerTurn(1, HandlerSpecs(codes), handlerChan)
           ELSE DropSender(handlerChan)
    /\ wdpc' = "recv"
    /\ UNCHANGED <<runResults, terminatedChan, current_isolate, current_handler_id,
                   terminating, early, killed>>

\* load_script returns; send(None); get_f_function when the load was ok;
\* then the first call of f is armed, or the turn ends.
LoadScript ==
    /\ UNCHANGED <<nonRunVars, callerTx>>
    /\ rpc = "load"
    /\ LoadProceeds
    /\ LET terminated == ScriptCompiles(handlers[handler_ix].code) /\ handler_ix \in terminating
           loaded == load_script(handlers[handler_ix], runResults, terminated)
           got == IF loaded[1] THEN get_f_function(handlers[handler_ix], loaded[2])
                  ELSE <<FALSE, loaded[2]>>
           ch == Append(handlerChan, None)
       IN IF got[1] /\ hydrated_events # <<>>
          THEN ArmCall(1, got[2], ch) /\ UNCHANGED terminating
          ELSE EndHandlerTurn(got[2], ch)
    /\ killed' = IF ScriptCompiles(handlers[handler_ix].code) /\ handler_ix \in terminating
                 THEN killed \cup {handler_ix} ELSE killed
    /\ UNCHANGED <<handlers, runEvents, hydrated_events, wdpc, current_isolate,
                   current_handler_id, early>>

\* function_as_f.call returns, None when f threw or was terminated, else
\* Some(value); send(None); the outcome is reported against the event, or
\* the report panics; then the call on the next event is armed, or the turn
\* ends.
CallReturns ==
    /\ UNCHANGED <<nonRunVars, callerTx>>
    /\ rpc = "call"
    /\ CallProceeds
    /\ LET terminated == handler_ix \in terminating
           run == IF terminated \/ CallF(handlers[handler_ix].code, event_ix) = Throws
                  THEN None
                  ELSE Some(CallF(handlers[handler_ix].code, event_ix))
           res == IF IsSome(run)
                  THEN report_result_output(handlers[handler_ix],
                                            hydrated_events[event_ix].event_id,
                                            runResults, Unwrap(run))
                  ELSE report_error(handlers[handler_ix].handler_id,
                                    hydrated_events[event_ix].event_id, runResults,
                                    "Failed to run the function")
           ch == Append(handlerChan, None)
       IN IF StringifyPanics(run)
          THEN Panic(ch)
          ELSE IF event_ix < Len(hydrated_events)
               THEN /\ ArmCall(event_ix + 1, res, ch)
                    /\ terminating' = terminating \ {handler_ix}
               ELSE EndHandlerTurn(res, ch)
    /\ killed' = IF handler_ix \in terminating THEN killed \cup {handler_ix} ELSE killed
    /\ UNCHANGED <<handlers, runEvents, hydrated_events, wdpc, current_isolate,
                   current_handler_id, early>>

\* watchdog_thread.join() returns once the thread has ended; run_all
\* returns results.
JoinWatchdog ==
    /\ UNCHANGED <<nonRunVars, callerTx>>
    /\ rpc = "join"
    /\ wdpc = "done"
    /\ rpc' = "returned"
    /\ UNCHANGED <<handlers, runEvents, hydrated_events, handler_ix, event_ix, runResults,
                   handlerChan, terminatedChan, senderGone, wdpc, current_isolate,
                   current_handler_id, terminating, early, killed>>

\* try_pump after run_all: save_results inserts every result and
\* tx.commit() makes the rows and the deletion of the polled queue rows
\* visible; or one of the two fails, or run_all has panicked, and the
\* transaction is dropped.
TryPumpSave ==
    /\ UNCHANGED nonRunVars
    /\ rpc \in {"returned", "panicked"}
    /\ callerTx.pc = "open"
    /\ \E dbOk \in BOOLEAN :
        callerTx' = IF dbOk /\ rpc = "returned"
                    THEN [pc |-> "committed", queued |-> {}, stored |-> runResults]
                    ELSE [callerTx EXCEPT !.pc = "failed"]
    /\ UNCHANGED runVars

\* recv_timeout gives Ok(message): arm or disarm.
WatchdogReceive ==
    /\ UNCHANGED <<nonRunVars, callerTx>>
    /\ wdpc = "recv"
    /\ handlerChan # <<>>
    /\ handlerChan' = Tail(handlerChan)
    /\ IF IsSome(Head(handlerChan))
       THEN /\ current_isolate' = Some(Unwrap(Head(handlerChan)).isolate)
            /\ current_handler_id' = Unwrap(Head(handlerChan)).handler_id
       ELSE /\ current_isolate' = None
            /\ current_handler_id' = -1
    /\ UNCHANGED <<handlers, runEvents, hydrated_events, rpc, handler_ix, event_ix, runResults,
                   terminatedChan, senderGone, wdpc, terminating, early, killed>>

\* The isolate is running JavaScript that does not return unless terminated.
Looping(isolate) ==
    /\ isolate = handler_ix
    /\ \/ rpc = "load" /\ ~LoadProceeds
       \/ rpc = "call" /\ ~CallProceeds

\* recv_timeout gives Err(Timeout) while an isolate is stored: nothing was
\* waiting in the channel for current_duration.
WatchdogTimeout ==
    /\ UNCHANGED <<nonRunVars, callerTx>>
    /\ wdpc = "recv"
    /\ handlerChan = <<>>
    /\ ~senderGone
    /\ IsSome(current_isolate)
    /\ IF Looping(Unwrap(current_isolate))
       THEN UNCHANGED early
       ELSE early < MaxEarlyTimeouts /\ early' = early + 1
    /\ wdpc' = "send_terminated"
    /\ UNCHANGED <<handlers, runEvents, hydrated_events, rpc, handler_ix, event_ix,
                   runResults, handlerChan, terminatedChan, senderGone, current_isolate,
                   current_handler_id, terminating, killed>>

\* The id the watchdog holds while it is disarmed.
TerminatedPlaceholder == IF IsSome(current_isolate) THEN -1 ELSE current_handler_id

\* The id the watchdog reports for a termination.
TerminatedMessage == current_handler_id

\* watchdog_send_terminated.send(current_handler_id).
WatchdogSendTerminated ==
    /\ UNCHANGED <<nonRunVars, callerTx>>
    /\ wdpc = "send_terminated"
    /\ terminatedChan' = Append(terminatedChan, TerminatedMessage)
    /\ wdpc' = "terminate"
    /\ UNCHANGED <<handlers, runEvents, hydrated_events, rpc, handler_ix, event_ix, runResults,
                   handlerChan, senderGone, current_isolate, current_handler_id,
                   terminating, early, killed>>

\* The isolate of the orchestrator's current handler turn, while it exists.
IsolateAlive(isolate) ==
    /\ isolate = handler_ix
    /\ rpc \in {"load", "call"}

\* isolate.terminate_execution(), then the watchdog disarms itself.  The
\* call has no effect on an isolate that has been dropped.
\* A watchdog that disarms on Timeout without terminating the execution.
WatchdogForgets ==
    /\ UNCHANGED <<nonRunVars, callerTx>>
    /\ wdpc = "terminate"
    /\ current_isolate' = None
    /\ current_handler_id' = -1
    /\ wdpc' = "recv"
    /\ UNCHANGED <<handlers, runEvents, hydrated_events, rpc, handler_ix, event_ix, runResults,
                   handlerChan, terminatedChan, senderGone, terminating, early, killed>>

WatchdogTerminate ==
    /\ UNCHANGED <<nonRunVars, callerTx>>
    /\ wdpc = "terminate"
    /\ terminating' = IF IsolateAlive(Unwrap(current_isolate))
                      THEN terminating \cup {Unwrap(current_isolate)}
                      ELSE terminating
    /\ current_isolate' = None
    /\ current_handler_id' = -1
    /\ wdpc' = "recv"
    /\ UNCHANGED <<handlers, runEvents, hydrated_events, rpc, handler_ix, event_ix, runResults,
                   handlerChan, terminatedChan, senderGone, early, killed>>

\* recv_timeout gives Err(Disconnected): the sender is dropped and the
\* channel is empty.  The thread ends.
WatchdogDisconnected ==
    /\ UNCHANGED <<nonRunVars, callerTx>>
    /\ wdpc = "recv"
    /\ handlerChan = <<>>
    /\ senderGone
    /\ wdpc' = "done"
    /\ UNCHANGED <<handlers, runEvents, hydrated_events, rpc, handler_ix, event_ix, runResults,
                   handlerChan, terminatedChan, senderGone, current_isolate,
                   current_handler_id, terminating, early, killed>>

RunInit ==
    /\ rpc = "idle"
    /\ handlers = <<>>
    /\ runEvents = <<>>
    /\ hydrated_events = <<>>
    /\ handler_ix = 1
    /\ event_ix = 1
    /\ runResults = <<>>
    /\ handlerChan = <<>>
    /\ terminatedChan = <<>>
    /\ senderGone = FALSE
    /\ wdpc = "unborn"
    /\ current_isolate = None
    /\ current_handler_id = -1
    /\ terminating = {}
    /\ early = 0
    /\ killed = {}
    /\ callerTx = [pc |-> "none", queued |-> {}, stored |-> <<>>]

RunNext ==
    \/ RunAllCall
    \/ LoadScript
    \/ CallReturns
    \/ JoinWatchdog
    \/ WatchdogReceive
    \/ WatchdogTimeout
    \/ WatchdogSendTerminated
    \/ WatchdogTerminate
    \/ WatchdogDisconnected

(***************************************************************************)
(* Event::to_json_value and Event::from_json_value (execution/model.rs).   *)
(*                                                                         *)
(* A JSON text is modelled by the value it parses to: an object is a       *)
(* function from field names to values, anything else is not an object.    *)
(***************************************************************************)
JsonObject(fields) == [kind |-> "object", fields |-> fields]

NotJsonObject == [kind |-> "other", fields |-> <<>>]

\* serde_json::Map::insert: sets the field, replacing what was there.
Insert(obj, field, value) ==
    [f \in DOMAIN obj \cup {field} |-> IF f = field THEN value ELSE obj[f]]

\* serde_json::Map::get.
Get(obj, field) == IF field \in DOMAIN obj THEN Some(obj[field]) ELSE None

EmptyMap == [f \in {} |-> ""]

\* EventAnalyzerId and MetadataSourceId, and their string forms.
EventAnalyzerIds ==
    {"Unknown", "Test", "Lifecycle", "Reference", "Contribution", "Identifier",
     "Organizations"}

MetadataSourceIds == {"Unknown", "Test", "Crossref", "ContentNegotiation"}

EventAnalyzerId_to_str_value(a) ==
    CASE a = "Lifecycle" -> "lifecycle"
      [] a = "Test" -> "test"
      [] a = "Reference" -> "reference"
      [] a = "Contribution" -> "contribution"
      [] a = "Identifier" -> "identifier"
      [] a = "Organizations" -> "organizations"
      [] OTHER -> "UNKNOWN"

EventAnalyzerId_from_str_value(str) ==
    CASE str = "lifecycle" -> "Lifecycle"
      [] str = "test" -> "Test"
      [] str = "reference" -> "Reference"
      [] str = "contribution" -> "Contribution"
      [] str = "identifier" -> "Identifier"
      [] str = "organizations" -> "Organizations"
      [] OTHER -> "Unknown"

MetadataSourceId_to_str_value(m) ==
    CASE m = "Crossref" -> "crossref"
      [] m = "ContentNegotiation" -> "content-negotiation"
      [] m = "Test" -> "test"
      [] OTHER -> "UNKNOWN"

MetadataSourceId_from_str_value(str) ==
    CASE str = "crossref" -> "Crossref"
      [] str = "test" -> "Test"
      [] str = "content-negotiation" -> "ContentNegotiation"
      [] OTHER -> "Unknown"

\* Identifiers of the scholarly_identifiers crate: a type and a stable string.
Identifiers == {[type |-> "doi", stable |-> "10.5555/12345678"],
                [type |-> "orcid", stable |-> "0000-0002-1825-0097"],
                [type |-> "string", stable |-> "something"]}

to_stable_string(identifier) == identifier.stable

\* Identifier::to_uri: Some for the types that have a resolver.
to_uri(identifier) ==
    IF identifier.type = "string" THEN None ELSE Some(<<"uri", identifier.stable>>)

\* Identifier::parse: recognises the forms of the known types, and makes a
\* String identifier of anything else.
Identifier_parse(str) ==
    IF \E i \in Identifiers : i.stable = str
    THEN CHOOSE i \in Identifiers : i.stable = str
    ELSE [type |-> "string", stable |-> str]

identifier_type_string(identifier) == identifier.type

is_hydrated_field(field) ==
    field \in {"analyzer", "source", "subject_id", "subject_id_type",
               "object_id", "object_id_type"}

\* The inserts of to_json_value for one of the two identifiers.
InsertIdentifier(obj, name, maybe_identifier) ==
    IF ~IsSome(maybe_identifier) THEN obj
    ELSE LET identifier == Unwrap(maybe_identifier)
             with_id == Insert(obj, name, to_stable_string(identifier))
             with_type == Insert(with_id, name \o "_type", identifier_type_string(identifier))
         IN IF IsSome(to_uri(identifier))
            THEN Insert(with_type, name \o "_uri", Unwrap(to_uri(identifier)))
            ELSE with_type

\* Event::to_json_value: the stored json with the hydrated fields inserted,
\* None when the stored json is not an object.
Event_to_json_value(event) ==
    IF event.json.kind # "object" THEN None
    ELSE LET a == Insert(event.json.fields, "analyzer",
                         EventAnalyzerId_to_str_value(event.analyzer))
             b == Insert(a, "source", MetadataSourceId_to_str_value(event.source))
             c == InsertIdentifier(b, "subject_id", event.subject_id)
             d == InsertIdentifier(c, "object_id", event.object_id)
         IN Some(JsonObject(d))

KeepsField(field) == is_hydrated_field(field)

\* The fields from_json_value copies into the json it stores.
normalized_event(data_obj) ==
    [f \in {g \in DOMAIN data_obj : KeepsField(g)} |-> data_obj[f]]

\* Event::from_json_value: None when the input is not an object or lacks
\* "analyzer" or "source".
Event_from_json_value(input) ==
    IF input.kind # "object" THEN None
    ELSE LET data_obj == input.fields IN
         IF ~IsSome(Get(data_obj, "analyzer")) \/ ~IsSome(Get(data_obj, "source")) THEN None
         \* event_id: the bodies here have no "event_id" field, so it is -1.
         ELSE Some([event_id |-> -1,
                    analyzer |-> EventAnalyzerId_from_str_value(data_obj["analyzer"]),
                    source |-> MetadataSourceId_from_str_value(data_obj["source"]),
                    subject_id |-> IF IsSome(Get(data_obj, "subject_id"))
                                   THEN Some(Identifier_parse(data_obj["subject_id"]))
                                   ELSE None,
                    object_id |-> IF IsSome(Get(data_obj, "object_id"))
                                  THEN Some(Identifier_parse(data_obj["object_id"]))
                                  ELSE None,
                    assertion_id |-> -1,
                    json |-> JsonObject(normalized_event(data_obj))])

\* The stored json bodies: objects over a few field names that are not
\* hydrated, and a text that is not an object.
BodyFields == {"title", "note"}

BodyValues == {"x", "y"}

Bodies ==
    {JsonObject(f) : f \in UNION {[fs -> BodyValues] : fs \in SUBSET BodyFields}}
        \cup {NotJsonObject}

MaybeIdentifiers == {None} \cup {Some(i) : i \in Identifiers}

Events ==
    [event_id : {1}, analyzer : EventAnalyzerIds, source : MetadataSourceIds,
     subject_id : MaybeIdentifiers, object_id : MaybeIdentifiers,
     assertion_id : {1}, json : Bodies]

PickEvent ==
    /\ UNCHANGED nonCodecVars
    /\ cpc = "start"
    /\ \E event \in Events : original' = Some(event)
    /\ cpc' = "picked"
    /\ UNCHANGED <<hydratedJson, ingested>>

Hydrate ==
    /\ UNCHANGED nonCodecVars
    /\ cpc = "picked"
    /\ hydratedJson' = Event_to_json_value(Unwrap(original))
    /\ cpc' = "hydrated"
    /\ UNCHANGED <<original, ingested>>

Ingest ==
    /\ UNCHANGED nonCodecVars
    /\ cpc = "hydrated"
    /\ IsSome(hydratedJson)
    /\ ingested' = Event_from_json_value(Unwrap(hydratedJson))
    /\ cpc' = "ingested"
    /\ UNCHANGED <<original, hydratedJson>>

CodecInit ==
    /\ cpc = "start"
    /\ original = None
    /\ hydratedJson = None
    /\ ingested = None

CodecNext ==
    \/ PickEvent
    \/ Hydrate
    \/ Ingest

(***************************************************************************)
(* load_handler (service.rs) and insert_handler (db/handler.rs).           *)
(*                                                                         *)
(* insert_handler is one statement, run on the pool and so in a            *)
(* transaction of its own.  The statement reads through the snapshot taken *)
(* when it starts: old_id does not see the row new_id inserts, nor a row   *)
(* committed by another caller after the start.  ON CONFLICT (hash) looks  *)
(* at the unique index instead: it sees every committed row, and waits for *)
(* a caller that has inserted the same hash and not yet committed.         *)
(***************************************************************************)
Loaders == 1..NumLoaders

HandlerSources == {"function f(a) { return [a]; }", "function f(a) { return []; }"}

\* util::hash_data: the SHA-1 of the source in hexadecimal.  Different
\* sources of HandlerSources have different hashes.
hash_data(data) == <<"sha1", data>>

Idle == [pc |-> "idle", code |-> "", snapshot |-> {}, new |-> None,
         rowAtBegin |-> None, overlapped |-> FALSE]

InFlight(q) == loader[q].pc # "idle"

RowUnseen(rows, hash) == None

\* The committed row with this hash in a set of rows, if there is one.
RowWithHash(rows, hash) ==
    IF \E r \in rows : r.hash = hash
    THEN Some((CHOOSE r \in rows : r.hash = hash).handler_id)
    ELSE None

New(task_id) == [kind |-> "New", task_id |-> task_id]

Exists(task_id) == [kind |-> "Exists", task_id |-> task_id]

FailedSave == [kind |-> "FailedSave", task_id |-> -1]

\* old_id: SELECT handler_id FROM handler WHERE hash = $2, in the snapshot
\* of the statement.
old_id(l) == RowWithHash(l.snapshot, hash_data(l.code))

\* The match on the row in insert_handler and the match in load_handler.
TaskLoadResult(new, old) ==
    IF IsSome(new) THEN New(Unwrap(new))
    ELSE IF IsSome(old) THEN Exists(Unwrap(old))
    ELSE FailedSave

LogEntry(l, result) ==
    [code |-> l.code, result |-> result, rowAtBegin |-> l.rowAtBegin,
     overlapped |-> l.overlapped]

\* load_handler is called: the statement starts and takes its snapshot.
LoadBegin(p, code) ==
    /\ UNCHANGED nonLoadVars
    /\ loader[p].pc = "idle"
    /\ Len(loadLog) + Cardinality({q \in Loaders : InFlight(q)}) < MaxLoads
    /\ LET others == {q \in Loaders \ {p} : InFlight(q) /\ loader[q].code = code}
       IN loader' = [q \in Loaders |->
                        IF q = p
                        THEN [pc |-> "begun", code |-> code, snapshot |-> handlerRows,
                              new |-> None,
                              rowAtBegin |-> RowWithHash(handlerRows, hash_data(code)),
                              overlapped |-> others # {}]
                        ELSE IF q \in others THEN [loader[q] EXCEPT !.overlapped = TRUE]
                        ELSE loader[q]]
    /\ UNCHANGED <<handlerRows, handlerSeq, loadLog>>

\* new_id: INSERT ... ON CONFLICT (hash) DO NOTHING RETURNING handler_id.
\* The default of handler_id is taken from the sequence before the conflict
\* is looked for.
LoadInsert(p) ==
    /\ UNCHANGED nonLoadVars
    /\ loader[p].pc = "begun"
    /\ ~\E q \in Loaders \ {p} :
            /\ loader[q].pc = "inserted"
            /\ IsSome(loader[q].new)
            /\ hash_data(loader[q].code) = hash_data(loader[p].code)
    /\ handlerSeq' = handlerSeq + 1
    /\ loader' = [loader EXCEPT ![p].pc = "inserted",
                                ![p].new =
                                    IF IsSome(RowWithHash(handlerRows, hash_data(loader[p].code)))
                                    THEN None
                                    ELSE Some(handlerSeq + 1)]
    /\ UNCHANGED <<handlerRows, loadLog>>

\* The statement ends: its row, if it inserted one, is committed, and
\* load_handler returns.
LoadReturn(p) ==
    /\ UNCHANGED nonLoadVars
    /\ loader[p].pc = "inserted"
    /\ handlerRows' =
            IF IsSome(loader[p].new)
            THEN handlerRows \cup {[handler_id |-> Unwrap(loader[p].new),
                                     hash |-> hash_data(loader[p].code),
                                     code |-> loader[p].code]}
            ELSE handlerRows
    /\ loadLog' = Append(loadLog,
                         LogEntry(loader[p], TaskLoadResult(loader[p].new, old_id(loader[p]))))
    /\ loader' = [loader EXCEPT ![p] = Idle]
    /\ UNCHANGED handlerSeq

\* The statement fails (Err(e) of insert_result.await): nothing is
\* committed, load_handler returns FailedSave.
LoadFails(p) ==
    /\ UNCHANGED nonLoadVars
    /\ loader[p].pc \in {"begun", "inserted"}
    /\ loadLog' = Append(loadLog, LogEntry(loader[p], FailedSave))
    /\ loader' = [loader EXCEPT ![p] = Idle]
    /\ UNCHANGED <<handlerRows, handlerSeq>>

LoadInit ==
    /\ handlerRows = {}
    /\ handlerSeq = 0
    /\ loader = [p \in Loaders |-> Idle]
    /\ loadLog = <<>>

LoadNext ==
    \/ \E p \in Loaders, code \in HandlerSources : LoadBegin(p, code)
    \/ \E p \in Loaders : LoadInsert(p)
    \/ \E p \in Loaders : LoadReturn(p)
    \/ \E p \in Loaders : LoadFails(p)

(***************************************************************************)
(* insert_metadata_assertion (db/metadata.rs), assert_metadata             *)
(* (metadata_assertion/service.rs) and ensure_metadata_assertion           *)
(* (metadata_assertion/retrieve).                                          *)
(*                                                                         *)
(* Every worker has one transaction: that of a harvester, which asserts    *)
(* what it fetched, or that of pump_n, which ensures the subject and the   *)
(* object of each event.  The insert runs in the transaction; the check of *)
(* ensure_metadata_assertion runs on the pool, that is on another          *)
(* connection, and sees committed rows only.  ON CONFLICT waits for a      *)
(* transaction that has inserted the same key and is still open.           *)
(***************************************************************************)
TxWorkers == 1..NumTx

\* The entities asserted about: a DOI and an identifier that is no DOI.
Subjects == {[entity_id |-> 1, type |-> "doi"], [entity_id |-> 2, type |-> "orcid"]}

\* What content negotiation answers for a DOI: it can change between requests.
MetadataJsons == {"{\"title\":\"a\"}", "{\"title\":\"b\"}"}

\* The subjects of the Crossref harvester are DOIs.
HarvestedSubjects == {s \in Subjects : s.type = "doi"}

\* What a harvester has fetched about a subject.
HarvestedJsons == {"{\"DOI\":\"x\"}"}

\* The key of ON CONFLICT (subject_entity_id, hash, source_id).
Triple(row) == <<row.subject_entity_id, row.hash, row.source_id>>

NoTx == [pc |-> "idle", pending |-> {}, want |-> None, ensuring |-> None]

HasTriple(rows, triple) == \E r \in rows : Triple(r) = triple

\* The row the INSERT finds in the way: a committed one, or one of its own
\* transaction.
Present(w, triple) == HasTriple(maRows \cup atx[w].pending, triple)

\* Another open transaction has inserted the key: the INSERT waits for it.
Blocked(w, triple) == \E o \in TxWorkers \ {w} : HasTriple(atx[o].pending, triple)

InsertWithoutOnConflict(present) == IF present THEN "unique_violation" ELSE "inserted"

\* INSERT ... ON CONFLICT (subject_entity_id, hash, source_id) DO NOTHING.
InsertOnConflictDoNothing(present) == IF present THEN "nothing" ELSE "inserted"

\* assert_metadata: the row it has insert_metadata_assertion insert.
AssertedRow(entity_id, metadata_json, source, reason) ==
    [subject_entity_id |-> entity_id, hash |-> hash_data(metadata_json),
     source_id |-> source, reason |-> reason, json |-> metadata_json]

\* Any metadata assertion on the entity, read on the pool.
HasAssertionOnPool(entity_id) == \E r \in maRows : r.subject_entity_id = entity_id

\* Where a Secondary assertion of the entity is stored when
\* ensure_metadata_assertion is called.
StoredSecondary(w, entity_id) ==
    LET secondaryOf(rows) ==
            \E r \in rows : r.subject_entity_id = entity_id /\ r.reason = "Secondary"
    IN  IF secondaryOf(atx[w].pending) THEN "own"
        ELSE IF secondaryOf(maRows) THEN "committed"
        ELSE IF \E o \in TxWorkers \ {w} : secondaryOf(atx[o].pending) THEN "other"
        ELSE "none"

\* pool.begin().
TxBegin(w) ==
    /\ UNCHANGED nonAssertVars
    /\ atx[w].pc = "idle"
    /\ opsDone < MaxOps
    /\ atx' = [atx EXCEPT ![w].pc = "open"]
    /\ UNCHANGED <<maRows, maSeq, insertLog, ensureLog, opsDone>>

\* A harvester calls assert_metadata with what it fetched.
AssertMetadata(w, subject, metadata_json) ==
    /\ UNCHANGED nonAssertVars
    /\ atx[w].pc = "open"
    /\ opsDone < MaxOps
    /\ opsDone' = opsDone + 1
    /\ atx' = [atx EXCEPT ![w].pc = "insert",
                          ![w].want = Some(AssertedRow(subject.entity_id, metadata_json,
                                                       "Crossref", "Primary"))]
    /\ UNCHANGED <<maRows, maSeq, insertLog, ensureLog>>

\* pump_n calls ensure_metadata_assertion: the check on the pool, and for a
\* DOI without assertion the request, which gives a JSON or fails.
EnsureMetadataAssertion(w, subject, response) ==
    /\ UNCHANGED nonAssertVars
    /\ atx[w].pc = "open"
    /\ opsDone < MaxOps
    /\ opsDone' = opsDone + 1
    /\ LET stored == StoredSecondary(w, subject.entity_id)
           fetches == ~HasAssertionOnPool(subject.entity_id) /\ subject.type = "doi"
       IN  IF fetches /\ IsSome(response)
           THEN /\ atx' = [atx EXCEPT ![w].pc = "insert",
                                      ![w].want = Some(AssertedRow(subject.entity_id,
                                                                   Unwrap(response),
                                                                   "ContentNegotiation",
                                                                   "Secondary")),
                                      ![w].ensuring = Some(stored)]
                /\ UNCHANGED ensureLog
           ELSE /\ ensureLog' = ensureLog \cup
                        {[entity_id |-> subject.entity_id, stored |-> stored,
                          fetched |-> fetches, inserted |-> FALSE]}
                /\ UNCHANGED atx
    /\ UNCHANGED <<maRows, maSeq, insertLog>>

\* insert_metadata_assertion, once no other transaction is in the way.
InsertMetadataAssertion(w) ==
    /\ UNCHANGED nonAssertVars
    /\ atx[w].pc = "insert"
    /\ LET row == Unwrap(atx[w].want)
           present == Present(w, Triple(row))
           outcome == InsertOnConflictDoNothing(present)
       IN  /\ ~Blocked(w, Triple(row))
           /\ maSeq' = maSeq + 1
           /\ insertLog' = insertLog \cup
                    {[triple |-> Triple(row), present |-> present, outcome |-> outcome]}
           /\ ensureLog' =
                    IF IsSome(atx[w].ensuring)
                    THEN ensureLog \cup
                            {[entity_id |-> row.subject_entity_id,
                              stored |-> Unwrap(atx[w].ensuring),
                              fetched |-> TRUE, inserted |-> outcome = "inserted"]}
                    ELSE ensureLog
           /\ atx' = [atx EXCEPT ![w] =
                        IF outcome = "unique_violation" THEN NoTx
                        ELSE [pc |-> "open",
                              pending |->
                                IF outcome = "inserted"
                                THEN atx[w].pending \cup
                                        {[assertion_id |-> maSeq + 1] @@ row}
                                ELSE atx[w].pending,
                              want |-> None, ensuring |-> None]]
    /\ UNCHANGED <<maRows, opsDone>>

\* tx.commit().
TxCommit(w) ==
    /\ UNCHANGED nonAssertVars
    /\ atx[w].pc = "open"
    /\ maRows' = maRows \cup atx[w].pending
    /\ atx' = [atx EXCEPT ![w] = NoTx]
    /\ UNCHANGED <<maSeq, insertLog, ensureLog, opsDone>>

\* A statement or the commit fails, the `?` drops the transaction.
TxRollback(w) ==
    /\ UNCHANGED nonAssertVars
    /\ atx[w].pc \in {"open", "insert"}
    /\ atx' = [atx EXCEPT ![w] = NoTx]
    /\ UNCHANGED <<maRows, maSeq, insertLog, ensureLog, opsDone>>

AssertInit ==
    /\ maRows = {}
    /\ maSeq = 0
    /\ atx = [w \in TxWorkers |-> NoTx]
    /\ insertLog = {}
    /\ ensureLog = {}
    /\ opsDone = 0

AssertNext ==
    \/ \E w \in TxWorkers : TxBegin(w)
    \/ \E w \in TxWorkers, subject \in HarvestedSubjects, metadata_json \in HarvestedJsons :
            AssertMetadata(w, subject, metadata_json)
    \/ \E w \in TxWorkers, subject \in Subjects,
          response \in {None} \cup {Some(j) : j \in MetadataJsons} :
            EnsureMetadataAssertion(w, subject, response)
    \/ \E w \in TxWorkers : InsertMetadataAssertion(w)
    \/ \E w \in TxWorkers : TxCommit(w)
    \/ \E w \in TxWorkers : TxRollback(w)

(***************************************************************************)
(* extract_events on the json of a Crossref work (event_extraction/        *)
(* crossref.rs): what orcid, isbn and references read of the body.         *)
(*                                                                         *)
(* A JSON value is a string, an array of values, an object or something    *)
(* else (a number, null); Value::get gives None on what is no object.      *)
(***************************************************************************)
JsonString(str) == [kind |-> "string", str |-> str]

JsonNumber == [kind |-> "number"]

JsonArray(items) == [kind |-> "array", items |-> items]

\* serde_json::Value::get with a string index.
ValueGet(value, field) ==
    IF value.kind = "object" THEN Get(value.fields, field) ELSE None

\* serde_json::Value::as_str.
as_str(value) == IF value.kind = "string" THEN Some(value.str) ELSE None

\* serde_json::Value::as_array.
as_array(value) == IF value.kind = "array" THEN Some(value.items) ELSE None

\* json.get(field), then as_array: the entries the three analyzers loop over.
ArrayAt(json, field) ==
    IF IsSome(ValueGet(json, field)) /\ IsSome(as_array(Unwrap(ValueGet(json, field))))
    THEN Unwrap(as_array(Unwrap(ValueGet(json, field))))
    ELSE <<>>

\* entry.get(field), then as_str.
StringAt(entry, field) ==
    IF IsSome(ValueGet(entry, field)) THEN as_str(Unwrap(ValueGet(entry, field))) ELSE None

MapParse(maybe_str) ==
    IF IsSome(maybe_str) THEN Some(Identifier_parse(Unwrap(maybe_str))) ELSE None

\* orcid: for each author entry the identifier parsed of its "ORCID".
AuthorOrcids(json) ==
    LET authors == ArrayAt(json, "author")
    IN  [i \in 1..Len(authors) |-> MapParse(StringAt(authors[i], "ORCID"))]

\* isbn: for each isbn-type entry with a string "type", the identifier
\* parsed of its "value".
IsbnValues(json) ==
    LET isbn_types == ArrayAt(json, "isbn-type")
    IN  [i \in 1..Len(isbn_types) |->
            IF IsSome(StringAt(isbn_types[i], "type"))
            THEN MapParse(StringAt(isbn_types[i], "value"))
            ELSE None]

ReferenceDoisUnskipped(json) ==
    LET refs == ArrayAt(json, "reference")
    IN  [i \in 1..Len(refs) |->
            IF IsSome(StringAt(refs[i], "DOI")) THEN MapParse(StringAt(refs[i], "DOI"))
            ELSE Some(Identifier_parse(""))]

\* references: for each reference entry the identifier parsed of its "DOI".
ReferenceDois(json) ==
    LET refs == ArrayAt(json, "reference")
    IN  [i \in 1..Len(refs) |-> MapParse(StringAt(refs[i], "DOI"))]

\* What the analyzers read of the body.
WorkBody(json) ==
    [author |-> AuthorOrcids(json), isbn |-> IsbnValues(json),
     reference |-> ReferenceDois(json)]

\* extract_events(assertion, maybe_json) on a parsed text.
crossref_extract_events(assertion, maybe_json) ==
    extract_events(assertion,
                   IF IsSome(maybe_json) THEN Some(WorkBody(Unwrap(maybe_json))) ELSE None)

\* The sequences of at most two elements of a set.
UpToTwo(S) == {<<>>} \cup {<<a>> : a \in S} \cup {<<a, b>> : a, b \in S}

Entry(fields) == [kind |-> "object", fields |-> fields]

\* The values a field of an entry has: absent, a string, no string.
FieldValues(strs) == {None, Some(JsonNumber)} \cup {Some(JsonString(x)) : x \in strs}

AuthorEntries ==
    {Entry(EmptyMap), JsonNumber}
        \cup {Entry([ORCID |-> Unwrap(v)]) :
                v \in FieldValues({"0000-0002-1825-0097"}) \ {None}}

IsbnEntries ==
    {Entry(EmptyMap)}
        \cup {Entry([type |-> Unwrap(t)]) : t \in FieldValues({"print"}) \ {None}}
        \cup {Entry([value |-> Unwrap(v)]) : v \in FieldValues({"9780000000002"}) \ {None}}
        \cup {Entry([type |-> Unwrap(t), value |-> Unwrap(v)]) :
                t \in FieldValues({"print"}) \ {None},
                v \in FieldValues({"9780000000002"}) \ {None}}

ReferenceEntries ==
    {Entry(EmptyMap)}
        \cup {Entry([DOI |-> Unwrap(v)]) :
                v \in FieldValues({"10.5555/12345678", "10.5555/1"}) \ {None}}

\* A field of the work: absent, no array, or an array of entries.
ArrayFields(entries) ==
    {None, Some(JsonNumber)} \cup {Some(JsonArray(items)) : items \in UpToTwo(entries)}

WorkOf(author, isbn_type, reference) ==
    LET values == [f \in {"author", "isbn-type", "reference"} |->
                        CASE f = "author" -> author
                          [] f = "isbn-type" -> isbn_type
                          [] OTHER -> reference]
    IN  Entry([f \in {g \in DOMAIN values : IsSome(values[g])} |-> Unwrap(values[f])])

\* The texts on the queue: what does not parse (None), a JSON that is no
\* object, and the works.
QueuedJsons ==
    {None, Some(JsonNumber)}
        \cup {Some(WorkOf(a, i, r)) : a \in ArrayFields(AuthorEntries),
                                      i \in ArrayFields(IsbnEntries),
                                      r \in ArrayFields(ReferenceEntries)}

QueuedSources == {"crossref", "test", "content-negotiation"}

\* A MetadataQueueEntry comes off the queue and its text is parsed.
TakeEntry ==
    /\ UNCHANGED nonCrossrefVars
    /\ qentry = None
    /\ \E source_id \in QueuedSources, maybe_json \in QueuedJsons :
        qentry' = Some([assertion |-> [source_id |-> source_id, assertion_id |-> 2,
                                       subject |-> Doi(1)],
                        maybe_json |-> maybe_json])
    /\ UNCHANGED extracted

ExtractEvents ==
    /\ UNCHANGED nonCrossrefVars
    /\ IsSome(qentry)
    /\ extracted = None
    /\ extracted' = Some(crossref_extract_events(Unwrap(qentry).assertion,
                                                 Unwrap(qentry).maybe_json))
    /\ UNCHANGED qentry

CrossrefInit ==
    /\ qentry = None
    /\ extracted = None

CrossrefNext ==
    \/ TakeEntry
    \/ ExtractEvents

(***************************************************************************)
(* The --extract stage (main.rs) seen from metadata_assertion_queue: the   *)
(* drain tasks, each polling in the transaction of its pump_n, and the     *)
(* transactions that enqueue.                                              *)
(*                                                                         *)
(* Between the poll and the commit, pump_n touches neither the queue nor   *)
(* the locks: that part is one step here, which commits or, any statement  *)
(* of it failing, rolls back.  A queue row gets its queue_id from the      *)
(* sequence when it is inserted and is seen by a poll once its transaction *)
(* has committed.  The SELECT of poll_assertions joins the queue with      *)
(* metadata_assertion and entity and ends in FOR UPDATE SKIP LOCKED        *)
(* without OF: it locks the rows of the three tables, and skips a queue    *)
(* row when any of its three rows is locked by another transaction.        *)
(***************************************************************************)
\* The subject entities of the assertions on the queue.
QueueSubjects == {1, 2}

\* The rows another open pump has locked: queue rows, and with them their
\* assertion and their subject entity.
LockedByOthers(w) == UNION {dlocked[o] : o \in Procs \ {w}}

LockableQueueRowOnly(w) == maq \ LockedByOthers(w)

\* FOR UPDATE SKIP LOCKED over the join.
Lockable(w) ==
    {r \in maq : \A l \in LockedByOthers(w) :
                    r # l /\ r.subject_entity_id # l.subject_entity_id}

\* ORDER BY queue_id ASC ... LIMIT $1.
PollAssertions(limit, w) == Limit(OrderByQueueId(Lockable(w)), limit)

\* A transaction inserts a metadata assertion; the queue row is created in it.
EnqueueInsert ==
    /\ UNCHANGED nonStageVars
    /\ maqSeq < MaxAssertions
    /\ \E subject \in QueueSubjects :
        maqPending' = maqPending \cup
                        {[queue_id |-> maqSeq + 1, subject_entity_id |-> subject]}
    /\ maqSeq' = maqSeq + 1
    /\ UNCHANGED <<maq, dpc, dlocked, consumedMax, pollers, stageRun>>

\* ... and commits.
EnqueueCommit ==
    /\ UNCHANGED nonStageVars
    /\ \E r \in maqPending :
        /\ maq' = maq \cup {r}
        /\ maqPending' = maqPending \ {r}
    /\ stageRun' = [stageRun EXCEPT !.enqueued = TRUE]
    /\ UNCHANGED <<maqSeq, dpc, dlocked, consumedMax, pollers>>

\* drain: pump_n begins a transaction and polls; or that fails and drain
\* returns the error.
DrainPoll(w) ==
    /\ UNCHANGED nonStageVars
    /\ dpc[w] = "loop"
    /\ \E dbOk \in BOOLEAN :
        IF dbOk
        THEN /\ dlocked' = [dlocked EXCEPT ![w] = SeqToSet(PollAssertions(BATCH_SIZE, w))]
             /\ dpc' = [dpc EXCEPT ![w] = "pump"]
             /\ pollers' = pollers \cup {w}
             /\ UNCHANGED stageRun
        ELSE /\ dpc' = [dpc EXCEPT ![w] = "failed"]
             /\ stageRun' = [stageRun EXCEPT !.failed = TRUE]
             /\ UNCHANGED <<dlocked, pollers>>
    /\ UNCHANGED <<maq, maqSeq, maqPending, consumedMax>>

\* A drain that returns after its first pump.
DrainOnce(count_assertions_read) == FALSE

\* drain: while count >= BATCH_SIZE.
DrainContinues(count_assertions_read) == count_assertions_read >= BATCH_SIZE

\* The highest queue_id among rows and n.
MaxQueueId(rows, n) ==
    IF \E r \in rows : r.queue_id > n
    THEN (CHOOSE r \in rows : \A o \in rows : o.queue_id <= r.queue_id).queue_id
    ELSE n

\* tx.commit() of pump_n, and the test of drain's loop on count_processed.
DrainCommit(w) ==
    /\ UNCHANGED nonStageVars
    /\ dpc[w] = "pump"
    /\ maq' = maq \ dlocked[w]
    /\ consumedMax' = MaxQueueId(dlocked[w], consumedMax)
    /\ dlocked' = [dlocked EXCEPT ![w] = {}]
    /\ dpc' = [dpc EXCEPT ![w] =
                    IF DrainContinues(Cardinality(dlocked[w])) THEN "loop" ELSE "done"]
    /\ UNCHANGED <<maqSeq, maqPending, pollers, stageRun>>

\* A statement of pump_n or its commit fails: the transaction is rolled
\* back, the rows are on the queue again, drain returns the error.
DrainFail(w) ==
    /\ UNCHANGED nonStageVars
    /\ dpc[w] = "pump"
    /\ dlocked' = [dlocked EXCEPT ![w] = {}]
    /\ dpc' = [dpc EXCEPT ![w] = "failed"]
    /\ stageRun' = [stageRun EXCEPT !.failed = TRUE]
    /\ UNCHANGED <<maq, maqSeq, maqPending, consumedMax, pollers>>

\* set.join_all() has returned; the next run of --extract spawns the tasks.
StageStart ==
    /\ UNCHANGED nonStageVars
    /\ \A w \in Procs : dpc[w] \in {"done", "failed"}
    /\ dpc' = [w \in Procs |-> "loop"]
    /\ stageRun' = [start |-> maq, enqueued |-> FALSE, failed |-> FALSE]
    /\ UNCHANGED <<maq, maqSeq, maqPending, dlocked, consumedMax, pollers>>

StageInit ==
    /\ maq = {}
    /\ maqSeq = 0
    /\ maqPending = {}
    /\ dpc = [w \in Procs |-> "done"]
    /\ dlocked = [w \in Procs |-> {}]
    /\ consumedMax = 0
    /\ pollers = {}
    /\ stageRun = [start |-> {}, enqueued |-> FALSE, failed |-> FALSE]

StageNext ==
    \/ EnqueueInsert
    \/ EnqueueCommit
    \/ \E w \in Procs : DrainPoll(w)
    \/ \E w \in Procs : DrainCommit(w)
    \/ \E w \in Procs : DrainFail(w)
    \/ StageStart

(***************************************************************************)
(* Analyzer and source idCodes (db::source): the integer idCodes of the event  *)
(* table read by to_event, the strings of a submitted event read by        *)
(* from_json_value.                                                        *)
(***************************************************************************)
\* from_int_value that knows no fallback.
from_int_value_strict(value) == "NoVariant"

EventAnalyzerId_from_int_value(value) ==
    CASE value = 2 -> "Lifecycle"
      [] value = 1 -> "Test"
      [] value = 3 -> "Reference"
      [] value = 4 -> "Contribution"
      [] value = 5 -> "Identifier"
      [] value = 6 -> "Organizations"
      [] OTHER -> "Unknown"

MetadataSourceId_from_int_value(value) ==
    CASE value = 2 -> "Crossref"
      [] value = 1 -> "Test"
      [] value = 3 -> "ContentNegotiation"
      [] OTHER -> "Unknown"

\* EventQueueEntry::to_event: the analyzer and the source of the event.
to_event(row) ==
    [analyzer |-> EventAnalyzerId_from_int_value(row.analyzer_id),
     source |-> MetadataSourceId_from_int_value(row.source_id)]

\* i32 values an analyzer_id or source_id column can hold: the idCodes, their
\* neighbours and the ends of the range.
IntValues == (-1..8) \cup {-2147483647 - 1, 2147483647}

\* Strings a submitted event can carry as analyzer or source.
StrValues ==
    {"lifecycle", "test", "reference", "contribution", "identifier", "organizations",
     "crossref", "content-negotiation", "UNKNOWN", "unknown", "", "Lifecycle", "blah"}

\* The pairs of S in which an element meets itself, an analyzer code or a
\* source code.
Paired(S, fixed_analyzer, fixed_source) ==
    {<<v, v>> : v \in S} \cup {<<fixed_analyzer, v>> : v \in S}
                         \cup {<<v, fixed_source>> : v \in S}

\* poll reads a row of the event table.
FetchRow ==
    /\ UNCHANGED nonSourceVars
    /\ \E pair \in Paired(IntValues, 7, -1) :
        idCodes' = [idCodes EXCEPT !.analyzer_id = pair[1], !.source_id = pair[2]]
    /\ decoded' = None
    /\ UNCHANGED parsed

\* ... and maps it with to_event.
ToEvent ==
    /\ UNCHANGED nonSourceVars
    /\ decoded = None
    /\ decoded' = Some(to_event(idCodes))
    /\ UNCHANGED <<idCodes, parsed>>

\* An event is submitted with analyzer and source strings.
SubmitStrings ==
    /\ UNCHANGED nonSourceVars
    /\ \E pair \in Paired(StrValues, "Lifecycle", "crossref") :
        idCodes' = [idCodes EXCEPT !.analyzer = pair[1], !.source = pair[2]]
    /\ parsed' = None
    /\ UNCHANGED decoded

\* from_json_value maps them with from_str_value.
FromStrValue ==
    /\ UNCHANGED nonSourceVars
    /\ parsed = None
    /\ parsed' = Some([analyzer |-> EventAnalyzerId_from_str_value(idCodes.analyzer),
                       source |-> MetadataSourceId_from_str_value(idCodes.source)])
    /\ UNCHANGED <<idCodes, decoded>>

SourceInit ==
    /\ idCodes = [analyzer_id |-> 1, source_id |-> 1, analyzer |-> "test", source |-> "test"]
    /\ decoded = None
    /\ parsed = None

SourceNext ==
    \/ FetchRow
    \/ ToEvent
    \/ SubmitStrings
    \/ FromStrValue

(***************************************************************************)
(* pump_n over a batch of assertions of several sources, parsing or not.   *)
(***************************************************************************)
\* The rows the queue may hold and the largest batch_size asked for.
MaxBatchRows == 3

\* A source and a json text (None: a text that does not parse) for each
\* assertion on the queue: Crossref's and another source's.
BatchShapes ==
    {[source_id |-> src, json |-> body] :
        src \in {"crossref", "test"}, body \in {None, Some(BodyCiting)}}

PumpEntry(row) == pumpAssertions[row.assertion_id]

PumpRows == {r \in pumpQueue : \E i \in 1..Len(pumpBatch) :
                                  pumpBatch[i].assertion_id = r.assertion_id}

\* The variables of the enrichment of the event in hand.
enrichVars == <<pumpFetchTodo, pumpAttempts, pumpFetch, pumpFetchFailed, pumpTxAborted,
                pumpSecondary, pumpTxSecondary, pumpDbFailed>>

\* An assertion is stored and its queue row committed.
PumpEnqueue ==
    /\ UNCHANGED nonPumpVars
    /\ Len(pumpAssertions) < MaxBatchRows
    /\ \E shape \in BatchShapes :
        LET a == Len(pumpAssertions) + 1 IN
        /\ pumpAssertions' = Append(pumpAssertions,
                [assertion_id |-> a, source_id |-> shape.source_id, json |-> shape.json,
                 subject |-> Doi(a)])
        /\ pumpQueue' = pumpQueue \cup {[queue_id |-> a, assertion_id |-> a]}
    /\ UNCHANGED <<pumpPc, pumpBatch, pumpEvents, pumpTodo, pumpTx, eventTable, pumpResult,
                   enrichVars>>

\* An Err leaves pump_n by `?`: the transaction is dropped and rolls back.
PumpErr ==
    /\ pumpPc' = "returned"
    /\ pumpResult' = "Err"
    /\ pumpTx' = <<>>
    /\ pumpTxSecondary' = {}
    /\ pumpTxAborted' = FALSE
    /\ pumpFetchTodo' = <<>>
    /\ pumpAttempts' = 0
    /\ UNCHANGED <<pumpQueue, pumpAssertions, pumpBatch, pumpEvents, pumpTodo, eventTable,
                   pumpFetch, pumpFetchFailed, pumpSecondary>>

\* pump_n(pool, batch_size): begin, poll_assertions, metadata_assertions_to_events.
PumpPoll(batch_size) ==
    /\ UNCHANGED nonPumpVars
    /\ pumpPc = "idle"
    /\ \E dbOk \in BOOLEAN :
        IF ~dbOk
        THEN PumpErr /\ pumpDbFailed' = TRUE
        ELSE LET rows == Limit(OrderByQueueId(pumpQueue), batch_size)
                 polled == [i \in 1..Len(rows) |-> PumpEntry(rows[i])]
                 evs == metadata_assertions_to_events(polled)
             IN
             /\ pumpBatch' = polled
             /\ pumpEvents' = evs
             /\ pumpTodo' = evs
             /\ pumpPc' = IF evs = <<>> THEN "commit" ELSE "events"
             /\ UNCHANGED <<pumpQueue, pumpAssertions, pumpTx, eventTable, pumpResult,
                            enrichVars>>

\* db::metadata::has_metadata_assertion(entity_id, pool): a committed
\* assertion about the entity, harvested or fetched.
PumpHasAssertion(identifier) ==
    \/ \E i \in 1..Len(pumpAssertions) : pumpAssertions[i].subject = identifier
    \/ identifier \in pumpSecondary

\* The identifiers ensure_metadata_assertion goes on to fetch for an event:
\* the subject, then the object, when it is a DOI without assertion.
ToFetch(ev) ==
    SelectSeq(<<ev.subject_id, ev.object_id>>,
              LAMBDA id : /\ IsSome(id)
                          /\ Unwrap(id).type = "doi"
                          /\ ~PumpHasAssertion(Unwrap(id)))

\* The turn of `for event in events` begins: resolve_identifier of subject
\* and object, which a failed query ends by `?`.
PumpResolveBoth ==
    /\ UNCHANGED nonPumpVars
    /\ pumpPc = "events"
    /\ \E dbOk \in BOOLEAN :
        IF ~dbOk
        THEN PumpErr /\ pumpDbFailed' = TRUE
        ELSE /\ pumpFetchTodo' = ToFetch(Head(pumpTodo))
             /\ pumpAttempts' = 0
             /\ pumpPc' = IF ToFetch(Head(pumpTodo)) = <<>> THEN "insert" ELSE "fetch"
             /\ UNCHANGED <<pumpQueue, pumpAssertions, pumpBatch, pumpEvents, pumpTodo, pumpTx,
                            eventTable, pumpResult, pumpFetch, pumpFetchFailed,
                            pumpTxAborted, pumpSecondary, pumpTxSecondary, pumpDbFailed>>

\* with_max_times(2): the retries after the first request.
MAX_TIMES == 2

\* What the content negotiation may answer: no answer at all (send fails), or
\* a status with a body that is JSON or is not.
Responses ==
    {[sent |-> FALSE, status |-> 0, body |-> "none"]}
    \cup {[sent |-> TRUE, status |-> st, body |-> b] :
            st \in {200, 404}, b \in {"json", "text"}}

\* request_url: Err when send fails or the text is no JSON; the status is
\* logged and not tested.
request_url(response) ==
    IF response.sent /\ response.body = "json" THEN "Ok" ELSE "Err"

\* The Err arm of try_collect_metadata_assertion, were it to end the transaction.
OnRequestErrAbort == [ret |-> "Err", stored |-> FALSE, aborted |-> TRUE]

\* The Err arm of try_collect_metadata_assertion: log and Ok(()).
OnRequestErr == [ret |-> "Ok", stored |-> FALSE, aborted |-> FALSE]

\* assert_metadata(.., Secondary, pool, tx).await?: resolve_identifier on the
\* pool, then the insert in the transaction; an Err of either is returned,
\* and a failed statement of the transaction aborts it.
OnRequestOk(db) ==
    CASE db = "ok" -> [ret |-> "Ok", stored |-> TRUE, aborted |-> FALSE]
      [] db = "poolErr" -> [ret |-> "Err", stored |-> FALSE, aborted |-> FALSE]
      [] db = "txErr" -> [ret |-> "Err", stored |-> FALSE, aborted |-> TRUE]

\* One request of the fetch ensure_metadata_assertion makes for the
\* identifier in hand: a JSON answer is asserted; another answer is retried
\* up to MAX_TIMES times, then logged.  Whatever try_collect_metadata_assertion
\* returns, ensure_metadata_assertion logs it and returns.
PumpFetch ==
    /\ UNCHANGED nonPumpVars
    /\ pumpPc = "fetch"
    /\ \E response \in Responses, db \in {"ok", "poolErr", "txErr"} :
        LET result == request_url(response)
            last == pumpAttempts >= MAX_TIMES
            outcome == IF result = "Ok" THEN OnRequestOk(db) ELSE OnRequestErr
            rest == Tail(pumpFetchTodo)
        IN
        /\ result = "Err" => db = "ok"
        /\ pumpTxAborted => db # "ok" \/ result = "Err"
        /\ IF result = "Err" /\ ~last
           THEN /\ pumpAttempts' = pumpAttempts + 1
                /\ pumpFetch' = Some([response |-> response, result |-> "retry"])
                /\ UNCHANGED <<pumpPc, pumpFetchTodo, pumpFetchFailed, pumpTxAborted,
                               pumpTxSecondary, pumpDbFailed>>
           ELSE /\ pumpAttempts' = 0
                /\ pumpFetch' = Some([response |-> response,
                                      result |-> IF result = "Err" THEN "failed"
                                                 ELSE IF outcome.stored THEN "stored"
                                                 ELSE "dbErr"])
                /\ pumpFetchFailed' = (pumpFetchFailed \/ result = "Err")
                /\ pumpTxAborted' = (pumpTxAborted \/ outcome.aborted)
                /\ pumpDbFailed' = (pumpDbFailed \/ (result = "Ok" /\ db # "ok"))
                /\ pumpTxSecondary' = IF outcome.stored
                                      THEN pumpTxSecondary \cup {Unwrap(Head(pumpFetchTodo))}
                                      ELSE pumpTxSecondary
                /\ pumpFetchTodo' = rest
                /\ pumpPc' = IF rest = <<>> THEN "insert" ELSE "fetch"
    /\ UNCHANGED <<pumpQueue, pumpAssertions, pumpBatch, pumpEvents, pumpTodo, pumpTx,
                   eventTable, pumpResult, pumpSecondary>>

\* insert_event in the transaction; a failed query returns Err, and every
\* query of an aborted transaction fails.
PumpEvent ==
    /\ UNCHANGED nonPumpVars
    /\ pumpPc = "insert"
    /\ \E dbOk \in BOOLEAN :
        /\ pumpTxAborted => ~dbOk
        /\ IF ~dbOk
           THEN PumpErr /\ pumpDbFailed' = TRUE
           ELSE /\ pumpTx' = Append(pumpTx, Head(pumpTodo))
                /\ pumpTodo' = Tail(pumpTodo)
                /\ pumpPc' = IF Tail(pumpTodo) = <<>> THEN "commit" ELSE "events"
                /\ UNCHANGED <<pumpQueue, pumpAssertions, pumpBatch, pumpEvents, eventTable,
                               pumpResult, enrichVars>>

\* tx.commit(): the deletion of the polled rows, the inserted events and the
\* fetched assertions become visible; Ok((count_processed, count_events)).
PumpCommitBatch ==
    /\ UNCHANGED nonPumpVars
    /\ pumpPc = "commit"
    /\ \E dbOk \in BOOLEAN :
        IF ~dbOk
        THEN PumpErr /\ pumpDbFailed' = TRUE
        ELSE /\ pumpQueue' = pumpQueue \ PumpRows
             /\ eventTable' = eventTable \o pumpTx
             /\ pumpSecondary' = pumpSecondary \cup pumpTxSecondary
             /\ pumpTx' = <<>>
             /\ pumpTxSecondary' = {}
             /\ pumpResult' = <<Len(pumpBatch), Len(pumpEvents)>>
             /\ pumpPc' = "returned"
             /\ UNCHANGED <<pumpAssertions, pumpBatch, pumpEvents, pumpTodo, pumpFetchTodo,
                            pumpAttempts, pumpFetch, pumpFetchFailed, pumpTxAborted,
                            pumpDbFailed>>

\* The caller has the result; the next pump_n may be called.
PumpReturn ==
    /\ UNCHANGED nonPumpVars
    /\ pumpPc = "returned"
    /\ pumpPc' = "idle"
    /\ pumpBatch' = <<>>
    /\ pumpEvents' = <<>>
    /\ pumpTodo' = <<>>
    /\ pumpResult' = None
    /\ pumpFetch' = None
    /\ pumpFetchFailed' = FALSE
    /\ pumpDbFailed' = FALSE
    /\ UNCHANGED <<pumpQueue, pumpAssertions, pumpTx, eventTable, pumpFetchTodo, pumpAttempts,
                   pumpTxAborted, pumpSecondary, pumpTxSecondary>>

PumpInit ==
    /\ pumpQueue = {}
    /\ pumpAssertions = <<>>
    /\ pumpPc = "idle"
    /\ pumpBatch = <<>>
    /\ pumpEvents = <<>>
    /\ pumpTodo = <<>>
    /\ pumpTx = <<>>
    /\ eventTable = <<>>
    /\ pumpResult = None
    /\ pumpFetchTodo = <<>>
    /\ pumpAttempts = 0
    /\ pumpFetch = None
    /\ pumpFetchFailed = FALSE
    /\ pumpTxAborted = FALSE
    /\ pumpSecondary = {}
    /\ pumpTxSecondary = {}
    /\ pumpDbFailed = FALSE

PumpNext ==
    \/ PumpEnqueue
    \/ \E batch_size \in 1..MaxBatchRows : PumpPoll(batch_size)
    \/ PumpResolveBoth
    \/ PumpFetch
    \/ PumpEvent
    \/ PumpCommitBatch
    \/ PumpReturn

(***************************************************************************)
(* An incremental harvest run, page by page, against what the API lists.   *)
(***************************************************************************)
\* The works the API may list for one query, and the `rows` of a request
\* (1000 in the code), in the model's scale.
MaxListing == 3
PageRows == 2

\* sort=indexed&order=desc: the listing has the later indexed date first; a
\* work whose date get_index_date cannot read may stand anywhere.
Newest(listed) ==
    \A i, j \in 1..Len(listed) :
        i < j /\ IsSome(listed[i].indexed) /\ IsSome(listed[j].indexed)
            => Unwrap(listed[i].indexed) >= Unwrap(listed[j].indexed)

Listings == {listed \in UNION {[1..k -> Items] : k \in 0..MaxListing} : Newest(listed)}

\* The page the API returns at a cursor: the next `rows` works of the listing.
PageAt(cursor, rows) ==
    LET last == IF cursor + rows > Len(scanListing) THEN Len(scanListing) ELSE cursor + rows
    IN  [k \in 1..(last - cursor) |-> cursor + k]

ItemsAt(places) == [k \in 1..Len(places) |-> scanListing[places[k]]]

\* `.await?` on assert_metadata: an Err ends harvest_recently_indexed.
AssertIgnored(insertOk) == "scan"
AssertOrReturn(insertOk) == IF insertOk THEN "scan" ELSE "failed"

\* poll_newly_indexed_data up to the spawn of the producer.  One run is
\* followed, from a database without checkpoint row: `now` gives every `after`.
ScanBegin ==
    /\ UNCHANGED nonScanVars
    /\ scanPc = "idle"
    /\ \E now \in Times, listed \in Listings, dbOk \in BOOLEAN :
        IF ~dbOk
        THEN /\ scanPc' = "failed"
             /\ UNCHANGED <<scanListing, scanAfter, scanLatest, scanAgain>>
        ELSE /\ scanListing' = listed
             /\ scanAfter' = saturating_sub(UnwrapOr(scanCheckpoint, now), Hour)
             /\ scanLatest' = scanAfter'
             /\ scanAgain' = TRUE
             /\ scanPc' = "scan"
    /\ UNCHANGED <<scanCheckpoint, scanCursor, scanDropped, scanChan, scanPages, scanSent,
                   scanReceived, scanTx, scanStored>>

\* One turn of `while again` whose fetch succeeds.  chan.send never waits;
\* once the run has returned Err the Receiver is gone, send gives Err and
\* the unwrap ends the producer task.
ScanPage ==
    /\ UNCHANGED nonScanVars
    /\ scanPc \in {"scan", "failed"} /\ scanListing # None
    /\ scanAgain /\ ~scanDropped
    /\ LET places == PageAt(scanCursor, PageRows)
           kept == SelectSeq(places, LAMBDA k : Wanted(scanListing[k], scanAfter))
           gone == scanPc = "failed" /\ Len(kept) # 0
       IN
       /\ scanAgain' = (Len(places) # 0 /\ Len(kept) # 0 /\ ~gone)
       /\ scanDropped' = gone
       /\ scanChan' = IF gone THEN scanChan ELSE scanChan \o kept
       /\ scanSent' = IF gone THEN scanSent ELSE scanSent \o kept
       /\ scanPages' = Append(scanPages, places)
       /\ scanCursor' = scanCursor + Len(places)
    /\ UNCHANGED <<scanListing, scanPc, scanCheckpoint, scanAfter, scanLatest,
                   scanReceived, scanTx, scanStored>>

\* One turn of `while again` whose fetch fails after its retries.
ScanFetchError ==
    /\ UNCHANGED nonScanVars
    /\ scanPc \in {"scan", "failed"} /\ scanListing # None
    /\ scanAgain /\ ~scanDropped
    /\ scanAgain' = FALSE
    /\ UNCHANGED <<scanListing, scanPc, scanCheckpoint, scanAfter, scanCursor, scanDropped,
                   scanChan, scanPages, scanSent, scanLatest, scanReceived, scanTx,
                   scanStored>>

\* The producer leaves its loop and returns Ok(()): the Sender is dropped.
ScanProducerReturn ==
    /\ UNCHANGED nonScanVars
    /\ scanPc \in {"scan", "failed"} /\ scanListing # None
    /\ ~scanAgain /\ ~scanDropped
    /\ scanDropped' = TRUE
    /\ UNCHANGED <<scanListing, scanPc, scanCheckpoint, scanAfter, scanCursor, scanAgain,
                   scanChan, scanPages, scanSent, scanLatest, scanReceived, scanTx,
                   scanStored>>

\* The consumer takes an item: latest_date, and assert_metadata in the
\* consumer's transaction when the item has a date and a DOI.
ScanReceive ==
    /\ UNCHANGED nonScanVars
    /\ scanPc = "scan" /\ Len(scanChan) > 0
    /\ LET place == Head(scanChan)
           item == scanListing[place]
           asserted == IsSome(get_index_date(item)) /\ item.doi
       IN
       \E insertOk \in BOOLEAN :
        /\ asserted \/ insertOk
        /\ scanChan' = Tail(scanChan)
        /\ scanReceived' = scanReceived \cup {place}
        /\ scanLatest' = LatestAfter(item, scanLatest)
        /\ scanTx' = IF asserted /\ insertOk THEN scanTx \cup {place} ELSE scanTx
        /\ scanPc' = IF asserted THEN AssertOrReturn(insertOk) ELSE "scan"
    /\ UNCHANGED <<scanListing, scanCheckpoint, scanAfter, scanCursor, scanAgain,
                   scanDropped, scanPages, scanSent, scanStored>>

\* The channel is closed and empty: tx.commit() of the consumer, the join
\* of the producer, Ok(latest_date).
ScanCommit ==
    /\ UNCHANGED nonScanVars
    /\ scanPc = "scan" /\ Len(scanChan) = 0 /\ scanDropped
    /\ \E dbOk \in BOOLEAN :
        IF dbOk
        THEN /\ scanStored' = scanStored \cup scanTx
             /\ scanTx' = {}
             /\ scanPc' = "checkpoint"
        ELSE /\ scanPc' = "failed"
             /\ UNCHANGED <<scanStored, scanTx>>
    /\ UNCHANGED <<scanListing, scanCheckpoint, scanAfter, scanCursor, scanAgain,
                   scanDropped, scanChan, scanPages, scanSent, scanLatest, scanReceived>>

\* set_checkpoint(CROSSREF_NB, new_after) and the commit of its transaction.
ScanSetCheckpoint ==
    /\ UNCHANGED nonScanVars
    /\ scanPc = "checkpoint"
    /\ \E dbOk \in BOOLEAN :
        IF dbOk
        THEN /\ scanCheckpoint' = Some(scanLatest)
             /\ scanPc' = "done"
        ELSE /\ scanPc' = "failed"
             /\ UNCHANGED scanCheckpoint
    /\ UNCHANGED <<scanListing, scanAfter, scanCursor, scanAgain, scanDropped, scanChan,
                   scanPages, scanSent, scanLatest, scanReceived, scanTx, scanStored>>

ScanInit ==
    /\ scanListing = None
    /\ scanPc = "idle"
    /\ scanCheckpoint = None
    /\ scanAfter = MinTime
    /\ scanLatest = MinTime
    /\ scanCursor = 0
    /\ scanAgain = FALSE
    /\ scanDropped = FALSE
    /\ scanChan = <<>>
    /\ scanPages = <<>>
    /\ scanSent = <<>>
    /\ scanReceived = {}
    /\ scanTx = {}
    /\ scanStored = {}

ScanNext ==
    \/ ScanBegin
    \/ ScanPage
    \/ ScanFetchError
    \/ ScanProducerReturn
    \/ ScanReceive
    \/ ScanCommit
    \/ ScanSetCheckpoint

(***************************************************************************)
(* main: the stages --extract, --execute and --api of one invocation, and  *)
(* the drain loops of the first two.  A pump is its poll, which locks and  *)
(* takes rows, and then its commit or its Err; the queues are counted.     *)
(***************************************************************************)
\* The rows on each queue when the invocation starts, and the extract tasks
\* main spawns (`for i in 0..5`), in the model's scale.
MaxQueued == 2
NumDrainTasks == 2

DrainTasks == 1..NumDrainTasks

IdleDrain ==
    [pc |-> "idle", held |-> 0, polled |-> 0, erred |-> FALSE, pumps |-> 0, late |-> FALSE]

Min2(a, b) == IF a <= b THEN a ELSE b

\* The stages in the order of main's `if opt.` blocks that follow `stage`.
Following(stage) ==
    CASE stage = "boot" -> <<"extract", "execute", "api">>
      [] stage = "extract" -> <<"execute", "api">>
      [] stage = "execute" -> <<"api">>
      [] OTHER -> <<>>

\* A main that exits when a stage has logged an error.
NextStageUnlessFailed(stage, failed) ==
    LET later == SelectSeq(Following(stage), LAMBDA st : mainOpt[st]) IN
    IF failed \/ later = <<>> THEN "exit" ELSE Head(later)

\* main after `stage`: the next selected stage; an Err of a stage is logged
\* in its match arm and nothing else.
NextStage(stage, failed) ==
    LET later == SelectSeq(Following(stage), LAMBDA st : mainOpt[st]) IN
    IF later = <<>> THEN "exit" ELSE Head(later)

\* A stage is entered: the extract stage spawns its tasks, the execute
\* stage calls drain.
Enter(stage) ==
    /\ mainPc' = stage
    /\ mainRan' = IF stage = "exit" THEN mainRan ELSE mainRan \cup {stage}
    /\ extractTask' = IF stage = "extract"
                      THEN [w \in DrainTasks |-> [IdleDrain EXCEPT !.pc = "loop"]]
                      ELSE extractTask
    /\ executeDrain' = IF stage = "execute" THEN [IdleDrain EXCEPT !.pc = "loop"]
                       ELSE executeDrain

\* The options are parsed, the pool is there.
MainBoot ==
    /\ UNCHANGED nonMainVars
    /\ mainPc = "boot" /\ mainRan = {}
    /\ \E o \in [{"extract", "execute", "api"} -> BOOLEAN], a, b \in 0..MaxQueued :
        /\ mainOpt' = o
        /\ queuedAssertions' = a
        /\ queuedEvents' = b
        /\ LET first == SelectSeq(Following("boot"), LAMBDA st : o[st]) IN
           Enter(IF first = <<>> THEN "exit" ELSE Head(first))

\* The assertions other tasks' open pumps hold locked.
HeldByOthers(w) ==
    LET others == DrainTasks \ {w}
        RECURSIVE Sum(_)
        Sum(S) == IF S = {} THEN 0
                  ELSE LET x == CHOOSE x \in S : TRUE IN extractTask[x].held + Sum(S \ {x})
    IN Sum(others)

\* event_extraction::service::drain, `while count >= BATCH_SIZE`: pump_n
\* begins and polls, or fails there.
ExtractPoll(w) ==
    /\ UNCHANGED nonMainVars
    /\ mainPc = "extract" /\ extractTask[w].pc = "loop"
    /\ \E dbOk \in BOOLEAN :
        extractTask' = [extractTask EXCEPT ![w] =
            IF dbOk
            THEN [@ EXCEPT !.pc = "pump",
                           !.held = Min2(BATCH_SIZE, queuedAssertions - HeldByOthers(w)),
                           !.polled = Min2(BATCH_SIZE, queuedAssertions - HeldByOthers(w)),
                           !.pumps = @ + 1, !.late = extractTask[w].erred]
            ELSE [@ EXCEPT !.pc = "failed", !.erred = TRUE, !.pumps = @ + 1, !.polled = 0,
                           !.late = extractTask[w].erred]]
    /\ UNCHANGED <<mainOpt, mainPc, mainRan, queuedAssertions, queuedEvents, executeDrain>>

\* pump_n commits: the polled rows are gone, their events are queued; drain
\* tests count.
ExtractCommit(w) ==
    /\ UNCHANGED nonMainVars
    /\ mainPc = "extract" /\ extractTask[w].pc = "pump"
    /\ queuedAssertions' = queuedAssertions - extractTask[w].held
    /\ queuedEvents' = queuedEvents + extractTask[w].held
    /\ extractTask' = [extractTask EXCEPT ![w] =
            [@ EXCEPT !.pc = IF DrainContinues(extractTask[w].held) THEN "loop" ELSE "done",
                      !.held = 0]]
    /\ UNCHANGED <<mainOpt, mainPc, mainRan, executeDrain>>

\* pump_n returns Err after its poll: the transaction is dropped, and the
\* `?` of drain returns the error to the task, which logs it.
ExtractErr(w) ==
    /\ UNCHANGED nonMainVars
    /\ mainPc = "extract" /\ extractTask[w].pc = "pump"
    /\ extractTask' = [extractTask EXCEPT ![w] =
            [@ EXCEPT !.pc = "failed", !.held = 0, !.erred = TRUE]]
    /\ UNCHANGED <<mainOpt, mainPc, mainRan, queuedAssertions, queuedEvents, executeDrain>>

\* set.join_all() returns: every task has ended.
ExtractJoined ==
    /\ UNCHANGED nonMainVars
    /\ mainPc = "extract"
    /\ \A w \in DrainTasks : extractTask[w].pc \in {"done", "failed"}
    /\ Enter(NextStage("extract", \E w \in DrainTasks : extractTask[w].erred))
    /\ UNCHANGED <<mainOpt, queuedAssertions, queuedEvents>>

\* service::drain, `while count >= EXECUTE_BATCH_SIZE`: try_pump begins and
\* polls, or fails there: Err sets count to 0.
ExecutePoll ==
    /\ UNCHANGED nonMainVars
    /\ mainPc = "execute" /\ executeDrain.pc = "loop"
    /\ \E dbOk \in BOOLEAN :
        executeDrain' =
            IF dbOk
            THEN [executeDrain EXCEPT !.pc = "pump",
                                      !.held = Min2(EXECUTE_BATCH_SIZE, queuedEvents),
                                      !.polled = Min2(EXECUTE_BATCH_SIZE, queuedEvents),
                                      !.pumps = @ + 1, !.late = executeDrain.erred]
            ELSE [executeDrain EXCEPT !.pc = "done", !.erred = TRUE, !.pumps = @ + 1,
                                      !.polled = 0, !.late = executeDrain.erred]
    /\ UNCHANGED <<mainOpt, mainPc, mainRan, queuedAssertions, queuedEvents, extractTask>>

\* try_pump commits; count = events_processed.
ExecuteCommit ==
    /\ UNCHANGED nonMainVars
    /\ mainPc = "execute" /\ executeDrain.pc = "pump"
    /\ queuedEvents' = queuedEvents - executeDrain.held
    /\ executeDrain' = [executeDrain EXCEPT
            !.pc = IF executeDrain.held >= EXECUTE_BATCH_SIZE THEN "loop" ELSE "done",
            !.held = 0]
    /\ UNCHANGED <<mainOpt, mainPc, mainRan, queuedAssertions, extractTask>>

\* try_pump returns Err after its poll: logged, count = 0.
ExecuteErr ==
    /\ UNCHANGED nonMainVars
    /\ mainPc = "execute" /\ executeDrain.pc = "pump"
    /\ executeDrain' = [executeDrain EXCEPT !.pc = "done", !.held = 0, !.erred = TRUE]
    /\ UNCHANGED <<mainOpt, mainPc, mainRan, queuedAssertions, queuedEvents, extractTask>>

\* service::drain has returned.
ExecuteReturned ==
    /\ UNCHANGED nonMainVars
    /\ mainPc = "execute" /\ executeDrain.pc = "done"
    /\ Enter(NextStage("execute", executeDrain.erred))
    /\ UNCHANGED <<mainOpt, queuedAssertions, queuedEvents>>

\* api::run returns when the server is stopped.
ApiStopped ==
    /\ UNCHANGED nonMainVars
    /\ mainPc = "api"
    /\ Enter("exit")
    /\ UNCHANGED <<mainOpt, queuedAssertions, queuedEvents>>

MainInit ==
    /\ mainOpt = [st \in {"extract", "execute", "api"} |-> FALSE]
    /\ mainPc = "boot"
    /\ mainRan = {}
    /\ queuedAssertions = 0
    /\ queuedEvents = 0
    /\ extractTask = [w \in DrainTasks |-> IdleDrain]
    /\ executeDrain = IdleDrain

MainNext ==
    \/ MainBoot
    \/ \E w \in DrainTasks : ExtractPoll(w)
    \/ \E w \in DrainTasks : ExtractCommit(w)
    \/ \E w \in DrainTasks : ExtractErr(w)
    \/ ExtractJoined
    \/ ExecutePoll
    \/ ExecuteCommit
    \/ ExecuteErr
    \/ ExecuteReturned
    \/ ApiStopped

(***************************************************************************)
(* Specifications.                                                         *)
(***************************************************************************)
Init ==
    HarvestInit /\ ResolveInit /\ ExtractInit /\ ExecuteInit /\ RunInit /\ CodecInit
    /\ LoadInit /\ AssertInit /\ CrossrefInit
    /\ StageInit /\ SourceInit /\ PumpInit /\ ScanInit /\ MainInit

SpecHarvest == Init /\ [][HarvestNext]_vars

SpecResolve == Init /\ [][ResolveNext]_vars

SpecExtract == Init /\ [][ExtractNext]_vars

SpecExecute == Init /\ [][ExecuteNext]_vars

SpecRunAll == Init /\ [][RunNext]_vars

\* run_all together with the end of the try_pump that called it.
TryPumpNext ==
    \/ RunNext
    \/ TryPumpSave

SpecTryPump == Init /\ [][TryPumpNext]_vars

\* The orchestrator and the watchdog are two threads, each of which is
\* scheduled again and again; a recv_timeout that no message interrupts
\* does time out.  Nothing forces a caller to call run_all.
RunFairness ==
    /\ WF_vars(LoadScript)
    /\ WF_vars(CallReturns)
    /\ WF_vars(JoinWatchdog)
    /\ WF_vars(WatchdogReceive)
    /\ WF_vars(WatchdogTimeout)
    /\ WF_vars(WatchdogSendTerminated)
    /\ WF_vars(WatchdogTerminate)
    /\ WF_vars(WatchdogDisconnected)

SpecRunAllFair == SpecRunAll /\ RunFairness

SpecCodec == Init /\ [][CodecNext]_vars

SpecLoad == Init /\ [][LoadNext]_vars

SpecAssert == Init /\ [][AssertNext]_vars

SpecCrossref == Init /\ [][CrossrefNext]_vars

SpecStage == Init /\ [][StageNext]_vars

SpecSource == Init /\ [][SourceNext]_vars

SpecPump == Init /\ [][PumpNext]_vars

SpecScan == Init /\ [][ScanNext]_vars

SpecMain == Init /\ [][MainNext]_vars

(***************************************************************************)
(* C1: across incremental harvest runs the stored checkpoint never         *)
(* decreases: the value a run writes is at least the value it read.        *)
(***************************************************************************)
C1_CheckpointNeverDecreases ==
    (hPc = "done" /\ IsSome(cpRead)) => Unwrap(checkpoint) >= Unwrap(cpRead)

(***************************************************************************)
(* C2: a run in which no item passes the 'indexed > after' filter leaves   *)
(* the checkpoint equal to the value it had before the run.                *)
(***************************************************************************)
C2_ZeroNewItemsKeepsCheckpoint ==
    (hPc = "done" /\ ~anyKept) => checkpoint = cpRead

(***************************************************************************)
(* C3: a run whose page fetch fails so that no item is harvested leaves    *)
(* the checkpoint untouched.                                               *)
(***************************************************************************)
C3_FailedRunKeepsCheckpoint ==
    (hPc \in {"done", "failed"} /\ fetchFailed /\ fetched = 0) => checkpoint = cpRead

(***************************************************************************)
(* C4: concurrent resolve_identifier calls on one identifier all return    *)
(* the same entity_id, the entity table holds exactly one row for an       *)
(* identifier that was resolved, and distinct identifiers get distinct     *)
(* ids.                                                                    *)
(***************************************************************************)
C4_ResolveSameId ==
    /\ \A r1, r2 \in returned :
          (r1.identifier = r2.identifier) <=> (r1.entity_id = r2.entity_id)
    /\ \A r \in returned : Cardinality(EntityRows(r.identifier)) = 1

\* Two calls on one identifier were in flight together: one inserted the
\* row and has returned, the other lost the race and is at its SELECT; a
\* call on another identifier has returned as well.
C4_Witness ==
    \E p, q \in Procs :
        /\ p # q
        /\ rcall[p].step = "done" /\ rcall[q].step = "select"
        /\ rcall[p].ident = rcall[q].ident
        /\ \E r \in returned : r.identifier # Unwrap(rcall[p].ident)

(***************************************************************************)
(* C5: an entity id allocated by resolve_identifier during a pump whose    *)
(* transaction is then rolled back is still in the entity table, and every *)
(* later resolve_identifier call on that identifier returns that same id.  *)
(***************************************************************************)
C5_AllocatedIdSurvivesRollback ==
    \A r \in rolledBack :
        /\ r.row \in entity
        /\ \A l \in reResolved :
              l.identifier = r.row.identifier => l.entity_id = r.row.entity_id

\* A pump created an entity row and was rolled back, and a later pump has
\* resolved the same identifier and holds the id as its object_entity_id.
C5_Witness ==
    \E r \in rolledBack, w \in Procs :
        /\ [entity_id |-> r.row.entity_id, identifier |-> r.row.identifier] \in reResolved
        /\ objId[w] = Some(r.row.entity_id)
        /\ r.row \notin alloc[w]

\* The committed event rows of assertion a, and the events derived from it.
CommittedEventsOf(a) == {e \in BagToSet(events) : e.assertion_id = a}
CommittedCount(a) == BagCardinality([e \in CommittedEventsOf(a) |-> events[e]])
DerivedEventsOf(a) == extract_events(assertions[a], assertions[a].json)

\* The committed rows of a are exactly the derived events, in their order.
AllDerivedCommitted(a) ==
    LET committed == CommittedEventsOf(a)
        derived == DerivedEventsOf(a)
    IN
    /\ CommittedCount(a) = Len(derived)
    /\ \A i \in 1..Len(derived) :
          \E e \in committed :
              /\ e.ord = i
              /\ e.analyzer = derived[i].analyzer
              /\ IsSome(e.subject_entity_id)
              /\ IsSome(e.object_entity_id) = IsSome(derived[i].object_id)

QueueRowOf(a) == [queue_id |-> a, assertion_id |-> a]

\* w has a transaction open.
InPump(w) == wpc[w] \notin {"loop", "done"}

(***************************************************************************)
(* C6: a metadata-queue row is gone from the committed queue exactly when  *)
(* all events derived from its assertion are committed; while it is in the *)
(* queue none of them is; a drain task without open transaction holds no   *)
(* row, so the rows of a failed pump are visible to other workers again.   *)
(***************************************************************************)
C6_QueueRowAndEventsAtomic ==
    /\ \A a \in 1..Len(assertions) :
          IF QueueRowOf(a) \in queue
          THEN CommittedEventsOf(a) = {}
          ELSE AllDerivedCommitted(a)
    /\ \A w \in Procs : ~InPump(w) => locked[w] = {} /\ txEvents[w] = <<>>

\* One assertion was committed with its two events; the pump of another
\* inserted events and was rolled back: its row is in the queue, no worker
\* holds it, and none of its events is committed.
C6_Witness ==
    \E a \in 1..Len(assertions), r \in rolledBack :
        /\ QueueRowOf(a) \notin queue
        /\ CommittedCount(a) >= 2
        /\ \E q \in r.polled :
              /\ q \in queue
              /\ \A w \in Procs : q \notin locked[w]
              /\ CommittedEventsOf(q.assertion_id) = {}
              /\ DerivedEventsOf(q.assertion_id) # <<>>

(***************************************************************************)
(* C7: no metadata-queue row is held by two open pump transactions at the  *)
(* same time.                                                              *)
(***************************************************************************)
C7_NoRowHeldTwice ==
    \A w1, w2 \in Procs : w1 # w2 => locked[w1] \cap locked[w2] = {}

\* Two drain tasks are inside pump_n at once, each holding a row.
C7_Witness ==
    \E w1, w2 \in Procs :
        /\ w1 # w2
        /\ InPump(w1) /\ InPump(w2)
        /\ locked[w1] # {} /\ locked[w2] # {}
        /\ Len(txEvents[w1]) > 0 /\ Len(txEvents[w2]) > 0

\* The events that were put on the queue and are no longer on it.
RemovedEvents == {e \in 1..eventSeq : \A r \in eventQueue : r.event_id # e}

(***************************************************************************)
(* C8: an event is off the event queue only when a committed pump polled   *)
(* it; execution_result holds exactly what run_all returned to the pumps   *)
(* that committed, so a failed pump has persisted nothing and an event     *)
(* still on the queue has no result; a process outside try_pump holds no   *)
(* queue row, so the events of a failed pump can be polled again.          *)
(***************************************************************************)
C8_EventRemovedWithResults ==
    /\ RemovedEvents \subseteq delivered
    /\ results = owed
    /\ \A r \in eventQueue : \A x \in BagToSet(results) : x.event_id # r.event_id
    /\ \A p \in Procs : xpc[p] \in {"returned", "loop"} => xlocked[p] = {} /\ xsaved[p] = {}

\* A pump that had results for an event was rolled back: the event is on the
\* queue, no process holds it and it has no result; another event was
\* removed by a pump that committed a result for it.
C8_Witness ==
    /\ \E r \in eventQueue :
          /\ r.event_id \in aborted
          /\ \A p \in Procs : r \notin xlocked[p]
    /\ \E e \in RemovedEvents : \E x \in BagToSet(results) : x.event_id = e

(***************************************************************************)
(* C9: every result run_all returns carries the handler_id of one of the   *)
(* handlers it was given and an event_id that is -1 or the event_id of one *)
(* of the events it was given; the results made from the terminated        *)
(* channel are among them.                                                  *)
(***************************************************************************)
GivenHandlerIds == {handlers[i].handler_id : i \in 1..Len(handlers)}

GivenEventIds == {runEvents[i].event_id : i \in 1..Len(runEvents)}

C9_ResultIdsAreGiven ==
    rpc = "returned" =>
        \A i \in 1..Len(runResults) :
            /\ runResults[i].handler_id \in GivenHandlerIds
            /\ runResults[i].event_id \in {-1} \cup GivenEventIds

\* run_all has returned, for two handlers or more, results that hold a
\* timeout result read from the terminated channel and a result for an event.
C9_Witness ==
    /\ rpc = "returned"
    /\ Len(handlers) >= 2
    /\ \E i \in 1..Len(runResults) :
          /\ runResults[i].error = Some("took too long")
          /\ runResults[i].event_id = -1
    /\ \E j \in 1..Len(runResults) : runResults[j].event_id \in GivenEventIds

(***************************************************************************)
(* C10: every result run_all produces has exactly one of output and error  *)
(* set.                                                                     *)
(***************************************************************************)
C10_OutputXorError ==
    \A i \in 1..Len(runResults) :
        IsSome(runResults[i].output) # IsSome(runResults[i].error)

\* run_all has returned both a result with an output and a result with an
\* error.
C10_Witness ==
    /\ rpc = "returned"
    /\ \E i \in 1..Len(runResults) : IsSome(runResults[i].output)
    /\ \E j \in 1..Len(runResults) : IsSome(runResults[j].error)

(***************************************************************************)
(* C11: a handler whose load phase failed (compile error, the script threw *)
(* or was terminated, f missing or not a function) is never called for an *)
(* event, and no result carries its handler_id with the id of an event.    *)
(***************************************************************************)
LoadFailureMessages == {"Failed to compile code.", "Failed to load the function",
                        "Didn't find named function.", "'f' was not a function"}

LoadFailed(handler_id) ==
    \E i \in 1..Len(runResults) :
        /\ runResults[i].handler_id = handler_id
        /\ runResults[i].event_id = -1
        /\ \E msg \in LoadFailureMessages : runResults[i].error = Some(msg)

C11_FailedLoadSkipsEvents ==
    /\ rpc = "call" => ~LoadFailed(handlers[handler_ix].handler_id)
    /\ \A i \in 1..Len(runResults) :
          runResults[i].event_id # -1 => ~LoadFailed(runResults[i].handler_id)

\* run_all has returned; the load of a looping handler was terminated,
\* there were events to run, and another handler has results for them.
C11_Witness ==
    /\ rpc = "returned"
    /\ hydrated_events # <<>>
    /\ \E k \in 1..Len(handlers) :
          /\ handlers[k].code = "loopOnLoad"
          /\ LoadFailed(handlers[k].handler_id)
    /\ \E j \in 1..Len(runResults) : runResults[j].event_id # -1

(***************************************************************************)
(* C12: for a handler whose load loops forever run_all returns exactly one *)
(* error result, with event_id -1 and a message of load failure or of      *)
(* timeout, and no result with the id of an event.                         *)
(***************************************************************************)
ResultsOf(handler_id) == {i \in 1..Len(runResults) : runResults[i].handler_id = handler_id}

ResultsWith(handler_id, message) ==
    {i \in ResultsOf(handler_id) :
        runResults[i].event_id = -1 /\ runResults[i].error = Some(message)}

C12_LoopingLoadOneError ==
    rpc = "returned" =>
        \A k \in 1..Len(handlers) :
            handlers[k].code = "loopOnLoad" =>
                /\ Cardinality(ResultsOf(handlers[k].handler_id)) = 1
                /\ \A i \in ResultsOf(handlers[k].handler_id) :
                      /\ runResults[i].event_id = -1
                      /\ runResults[i].error \in {Some("Failed to load the function"),
                                                  Some("took too long")}

(***************************************************************************)
(* C12, as the code has it: for a handler whose load loops forever run_all *)
(* returns exactly two results, both with event_id -1: the load failure    *)
(* and the timeout; and no result with the id of an event.                 *)
(***************************************************************************)
C12_LoopingLoadTwoErrors ==
    rpc = "returned" =>
        \A k \in 1..Len(handlers) :
            handlers[k].code = "loopOnLoad" =>
                /\ Cardinality(ResultsOf(handlers[k].handler_id)) = 2
                /\ Cardinality(ResultsWith(handlers[k].handler_id,
                                           "Failed to load the function")) = 1
                /\ Cardinality(ResultsWith(handlers[k].handler_id, "took too long")) = 1

\* run_all has returned for a list with a handler that loops on load and
\* another handler, and events that hydrate.
C12_Witness ==
    /\ rpc = "returned"
    /\ Len(handlers) >= 2
    /\ hydrated_events # <<>>
    /\ \E k \in 1..Len(handlers) :
          /\ handlers[k].code = "loopOnLoad"
          /\ ResultsWith(handlers[k].handler_id, "took too long") # {}

(***************************************************************************)
(* C13: for a handler that returns on its first call and loops on every    *)
(* later one, run_all over events e1..en, n >= 2, returns a success result *)
(* for e1, no result with the event_id of any of e2..en, and exactly one   *)
(* timeout result with event_id -1.  Stated for runs in which no timeout   *)
(* hit JavaScript that was about to return.                                *)
(***************************************************************************)
C13_OnceThenLoops ==
    (rpc = "returned" /\ early = 0 /\ hydrated_events = runEvents /\ Len(runEvents) >= 2) =>
        \A k \in 1..Len(handlers) :
            handlers[k].code = "onceThenLoops" =>
                /\ \E i \in ResultsOf(handlers[k].handler_id) :
                      /\ runResults[i].event_id = runEvents[1].event_id
                      /\ IsSome(runResults[i].output)
                /\ \A i \in ResultsOf(handlers[k].handler_id) :
                      \A n \in 2..Len(runEvents) :
                          runResults[i].event_id # runEvents[n].event_id
                /\ Cardinality(ResultsWith(handlers[k].handler_id, "took too long")) = 1

ResultsFor(handler_id, event_id) ==
    LET Mine(r) == r.handler_id = handler_id /\ r.event_id = event_id
    IN SelectSeq(runResults, Mine)

\* run_all is past the report of the n-th call of the k-th handler.
CallReported(k, n) ==
    /\ ~LoadFailed(handlers[k].handler_id)
    /\ \/ k < handler_ix
       \/ k = handler_ix /\ rpc = "call" /\ n < event_ix
       \/ k = handler_ix /\ rpc = "panicked" /\ n <= event_ix
       \/ rpc \in {"join", "returned"}

\* The n-th call of the k-th handler returns a value: it neither throws nor
\* loops, and no call of the handler was terminated.
CallReturnsValue(k, n) ==
    /\ k \notin killed
    /\ CallF(handlers[k].code, n) \notin {Throws, Loops}

C15_OneResultPerElement ==
    \A k \in 1..Len(handlers) : \A n \in 1..Len(hydrated_events) :
        (CallReported(k, n) /\ CallReturnsValue(k, n)) =>
            LET value == CallF(handlers[k].code, n)
                got == ResultsFor(handlers[k].handler_id, hydrated_events[n].event_id)
            IN IF value.kind = "array"
               THEN got = [i \in 1..Len(value.elems) |->
                              [event_id |-> hydrated_events[n].event_id,
                               handler_id |-> handlers[k].handler_id,
                               output |-> Some(value.elems[i]), error |-> None]]
               ELSE /\ Len(got) = 1
                    /\ IsSome(got[1].error)
                    /\ ~IsSome(got[1].output)

(***************************************************************************)
(* C16: the results run_all attributes to a handler do not depend on the   *)
(* other handlers of the list: they are what run_all gives for the handler *)
(* alone.  Stated for handlers that need no termination, in runs in which  *)
(* no timeout hit JavaScript that was about to return.                     *)
(***************************************************************************)
\* Sources whose load and calls return by themselves and serialise.
SteadyCodes == Codes \ {"loopOnLoad", "loops", "onceThenLoops", "circular"}

RECURSIVE CallsAlone(_, _, _)
CallsAlone(handler_spec, n, res) ==
    IF n > Len(hydrated_events) THEN res
    ELSE LET value == CallF(handler_spec.code, n)
             event_id == hydrated_events[n].event_id
         IN CallsAlone(handler_spec, n + 1,
                IF value = Throws
                THEN report_error(handler_spec.handler_id, event_id, res,
                                  "Failed to run the function")
                ELSE report_result_output(handler_spec, event_id, res, value))

\* What run_all returns for the one handler and the hydrated events.
ResultsAlone(handler_spec) ==
    LET loaded == load_script(handler_spec, <<>>, FALSE)
        got == IF loaded[1] THEN get_f_function(handler_spec, loaded[2])
               ELSE <<FALSE, loaded[2]>>
    IN IF got[1] THEN CallsAlone(handler_spec, 1, got[2]) ELSE got[2]

\* What the caller of run_all gets: nothing when run_all panicked.
ReturnedResults == IF rpc = "returned" THEN runResults ELSE <<>>

ReturnedFor(handler_id) ==
    LET Mine(r) == r.handler_id = handler_id
    IN SelectSeq(ReturnedResults, Mine)

C16_ResultsIndependentOfOthers ==
    (rpc \in {"returned", "panicked"} /\ early = 0) =>
        \A k \in 1..Len(handlers) :
            handlers[k].code \in SteadyCodes =>
                ReturnedFor(handlers[k].handler_id) = ResultsAlone(handlers[k])

(***************************************************************************)
(* C17: from_json_value(to_json_value(E)) has the analyzer, source,        *)
(* subject_id and object_id of E, and its stored json holds exactly the    *)
(* fields of E's body that are not reserved, with their values, and none   *)
(* of the reserved fields.                                                 *)
(***************************************************************************)
C17_RoundTrip ==
    cpc = "ingested" =>
        /\ IsSome(ingested)
        /\ LET E == Unwrap(original)
               back == Unwrap(ingested)
               body == E.json.fields
               kept == {f \in DOMAIN body : ~is_hydrated_field(f)}
           IN /\ back.analyzer = E.analyzer
              /\ back.source = E.source
              /\ back.subject_id = E.subject_id
              /\ back.object_id = E.object_id
              /\ back.json.kind = "object"
              /\ DOMAIN back.json.fields = kept
              /\ \A f \in kept : back.json.fields[f] = body[f]

(***************************************************************************)
(* C18: a first load_handler(S) returns New with some handler_id, every    *)
(* later sequential load_handler(S) returns Exists with that handler_id,   *)
(* and the handler table holds one row for S however often it is loaded.   *)
(* A call is sequential when no other call for S is in flight while it     *)
(* runs; calls that fail on the database are left aside.                   *)
(***************************************************************************)
RowsOf(code) == {r \in handlerRows : r.code = code}

Sequential(i) == ~loadLog[i].overlapped /\ loadLog[i].result # FailedSave

C18_LoadHandlerIdempotent ==
    /\ \A i \in 1..Len(loadLog) :
        Sequential(i) =>
            /\ IF IsSome(loadLog[i].rowAtBegin)
               THEN loadLog[i].result = Exists(Unwrap(loadLog[i].rowAtBegin))
               ELSE loadLog[i].result.kind = "New"
            /\ RowsOf(loadLog[i].code) =
                    {[handler_id |-> loadLog[i].result.task_id,
                      hash |-> hash_data(loadLog[i].code),
                      code |-> loadLog[i].code]}
    /\ \A i, j \in 1..Len(loadLog) :
        (i < j /\ loadLog[i].code = loadLog[j].code /\ Sequential(i) /\ Sequential(j)) =>
            /\ loadLog[j].result = Exists(loadLog[i].result.task_id)
    /\ \A code \in HandlerSources : Cardinality(RowsOf(code)) <= 1

C18_Witness ==
    \E i, j \in 1..Len(loadLog) :
        /\ i < j
        /\ loadLog[i].code = loadLog[j].code
        /\ Sequential(i) /\ Sequential(j)
        /\ loadLog[i].result.kind = "New"
        /\ loadLog[j].result.kind = "Exists"
        /\ Len(loadLog) = MaxLoads

(***************************************************************************)
(* C19: however often a metadata assertion is inserted with the same       *)
(* (subject_entity_id, hash, source_id), in one transaction or in          *)
(* concurrent ones, metadata_assertion holds one row for the triple, and   *)
(* at most one among the committed rows and those of the open              *)
(* transactions together; an insert that finds the triple present is not   *)
(* an error and inserts nothing.                                           *)
(***************************************************************************)
RowsInAnyTx == maRows \cup UNION {atx[w].pending : w \in TxWorkers}

C19_OneRowPerTriple ==
    /\ \A r1, r2 \in RowsInAnyTx : Triple(r1) = Triple(r2) => r1 = r2
    /\ \A l \in insertLog :
        /\ l.outcome # "unique_violation"
        /\ l.present => l.outcome = "nothing"
        /\ HasTriple(maRows, l.triple) =>
                Cardinality({r \in maRows : Triple(r) = l.triple}) = 1

C19_Witness ==
    /\ \E l \in insertLog :
        /\ l.present
        /\ Cardinality({r \in maRows : Triple(r) = l.triple}) = 1
    /\ opsDone = MaxOps
    /\ \A w \in TxWorkers : atx[w].pc = "idle"

(***************************************************************************)
(* C20: once a call of ensure_metadata_assertion has stored a Secondary    *)
(* assertion for an entity, a further call for the entity fetches nothing  *)
(* and inserts nothing, be it in the same transaction, in the transaction  *)
(* of a concurrent worker or after the commit.                             *)
(***************************************************************************)
C20_EnsureIsNoOpOnceStored ==
    \A l \in ensureLog : l.stored # "none" => ~l.fetched /\ ~l.inserted

(***************************************************************************)
(* C21: for a Crossref assertion whose body parses, extract_events returns *)
(* one Lifecycle event without object, then one Contribution event per     *)
(* author entry with a string ORCID, then one Identifier event per         *)
(* isbn-type entry with string type and value, then one Reference event    *)
(* per reference entry with a string DOI, in the order of the entries, and *)
(* nothing else; every event has the assertion's id and subject.           *)
(***************************************************************************)
\* The entries of a field of the work, <<>> when it is absent or no array.
EntriesOf(work, field) ==
    IF work.kind = "object" /\ field \in DOMAIN work.fields
       /\ work.fields[field].kind = "array"
    THEN work.fields[field].items
    ELSE <<>>

HasString(entry, field) ==
    /\ entry.kind = "object"
    /\ field \in DOMAIN entry.fields
    /\ entry.fields[field].kind = "string"

\* The analyzer and the object string of the events expected of a work.
ExpectedOf(work) ==
    LET authors == SelectSeq(EntriesOf(work, "author"), LAMBDA a : HasString(a, "ORCID"))
        isbns == SelectSeq(EntriesOf(work, "isbn-type"),
                           LAMBDA i : HasString(i, "type") /\ HasString(i, "value"))
        refs == SelectSeq(EntriesOf(work, "reference"), LAMBDA r : HasString(r, "DOI"))
    IN  <<<<"lifecycle", None>>>>
        \o [k \in 1..Len(authors) |-> <<"contribution", Some(authors[k].fields["ORCID"].str)>>]
        \o [k \in 1..Len(isbns) |-> <<"identifier", Some(isbns[k].fields["value"].str)>>]
        \o [k \in 1..Len(refs) |-> <<"reference", Some(refs[k].fields["DOI"].str)>>]

ObjectString(event) ==
    IF IsSome(event.object_id) THEN Some(to_stable_string(Unwrap(event.object_id))) ELSE None

ParsedCrossref ==
    /\ IsSome(extracted)
    /\ Unwrap(qentry).assertion.source_id = "crossref"
    /\ IsSome(Unwrap(qentry).maybe_json)

C21_ExtractedEvents ==
    ParsedCrossref =>
        LET evs == Unwrap(extracted)
            expected == ExpectedOf(Unwrap(Unwrap(qentry).maybe_json))
        IN  /\ Len(evs) = Len(expected)
            /\ \A k \in 1..Len(evs) :
                /\ evs[k].analyzer = expected[k][1]
                /\ ObjectString(evs[k]) = expected[k][2]
                /\ evs[k].assertion_id = Unwrap(qentry).assertion.assertion_id
                /\ evs[k].subject_id = Some(Unwrap(qentry).assertion.subject)

C21_Witness ==
    /\ ParsedCrossref
    /\ Len(Unwrap(extracted)) = 5
    /\ \E k \in 1..Len(Unwrap(extracted)) : Unwrap(extracted)[k].analyzer = "contribution"
    /\ \E k \in 1..Len(Unwrap(extracted)) : Unwrap(extracted)[k].analyzer = "identifier"
    /\ Len(EntriesOf(Unwrap(Unwrap(qentry).maybe_json), "reference")) = 2
    /\ Unwrap(extracted)[5].analyzer = "reference"

(***************************************************************************)
(* C22: when the --extract stage has finished, all its drain tasks having  *)
(* returned, and no assertion was enqueued since it started, the metadata  *)
(* assertion queue is empty.                                               *)
(***************************************************************************)
StageFinished == \A w \in Procs : dpc[w] \in {"done", "failed"}

PageReturned ==
    /\ hPc = "running" /\ again /\ ~senderDropped
    /\ ~fetchFailed'
    /\ (fetched' # fetched \/ ~again')

\* The step is the consumer receiving a record that has a DOI.
ReceivedWithDoi ==
    hPc = "running" /\ Len(chan) > 0 /\ chan' = Tail(chan) /\ Head(chan).doi

ReasonsOf(asserts) == {asserts[i] : i \in 1..Len(asserts)}

AnalyzerCodes == 1..6
SourceCodes == 1..3
AnalyzerStrings ==
    {"lifecycle", "test", "reference", "contribution", "identifier", "organizations"}
SourceStrings == {"crossref", "test", "content-negotiation"}

C24_UnknownNeverFails ==
    /\ IsSome(decoded) =>
        /\ Unwrap(decoded).analyzer \in EventAnalyzerIds
        /\ Unwrap(decoded).source \in MetadataSourceIds
        /\ idCodes.analyzer_id \notin AnalyzerCodes => Unwrap(decoded).analyzer = "Unknown"
        /\ idCodes.source_id \notin SourceCodes => Unwrap(decoded).source = "Unknown"
    /\ IsSome(parsed) =>
        /\ Unwrap(parsed).analyzer \in EventAnalyzerIds
        /\ Unwrap(parsed).source \in MetadataSourceIds
        /\ idCodes.analyzer \notin AnalyzerStrings => Unwrap(parsed).analyzer = "Unknown"
        /\ idCodes.source \notin SourceStrings => Unwrap(parsed).source = "Unknown"

C24_Witness ==
    /\ IsSome(decoded) /\ IsSome(parsed)
    /\ idCodes.analyzer_id = 7 /\ idCodes.source_id = -1
    /\ idCodes.analyzer = "Lifecycle" /\ idCodes.source = "crossref"
    /\ Unwrap(decoded) = [analyzer |-> "Unknown", source |-> "Unknown"]
    /\ Unwrap(parsed) = [analyzer |-> "Unknown", source |-> "Crossref"]

(***************************************************************************)
(* C25: a poll with limit N returns the rows with the N lowest queue ids   *)
(* among the queue rows that no other open transaction has locked; and     *)
(* when a single worker polls, every committed pump consumes queue ids     *)
(* above all those consumed before it.                                     *)
(***************************************************************************)
\* The N lowest queue rows among those not locked by another transaction.
LowestUnlocked(limit, w) ==
    SeqToSet(Limit(OrderByQueueId(LockableQueueRowOnly(w)), limit))

PollReturnsLowestUnlocked ==
    \A w \in Procs :
        (dpc[w] = "loop" /\ dpc'[w] = "pump") => dlocked'[w] = LowestUnlocked(BATCH_SIZE, w)

SingleWorkerAscending ==
    \A w \in Procs :
        (dpc[w] = "pump" /\ dpc'[w] \in {"loop", "done"} /\ pollers = {w}) =>
            \A r \in dlocked[w] : r.queue_id > consumedMax

C25_PollIsFifo == [][PollReturnsLowestUnlocked /\ SingleWorkerAscending]_vars

(***************************************************************************)
(* C26: after every arm-disarm cycle, the load and each call of f, the     *)
(* orchestrator polls the terminated channel before it arms the next       *)
(* cycle: nothing that was in the channel is still there when the next     *)
(* cycle is armed.                                                         *)
(***************************************************************************)
\* The step is the orchestrator ending a cycle: script.run or the call of f
\* has returned, None is sent, the outcome is reported without a panic.
CycleEnds ==
    /\ rpc \in {"load", "call"}
    /\ rpc' # rpc \/ handler_ix' # handler_ix \/ event_ix' # event_ix
    /\ rpc' # "panicked"

\* The cycle was the last of its handler's turn.
TurnEnds == CycleEnds /\ (handler_ix' # handler_ix \/ rpc' = "join")

C26_PollsAfterEveryCycle == [][CycleEnds => terminatedChan' = <<>>]_vars

IsTimeoutResult(r) == r.event_id = -1 /\ r.error = Some("took too long")

TimeoutResultsFor(ids) ==
    [i \in 1..Len(ids) |-> [event_id |-> -1, handler_id |-> ids[i], output |-> None,
                            error |-> Some("took too long")]]

LastOf(seq, n) == SubSeq(seq, Len(seq) - n + 1, Len(seq))

\* The orchestrator polls the terminated channel at the end of a handler's
\* turn and at no other time: the timeout results come after the results
\* of all the handler's events, and before the next handler is armed.
C26_PollsAtEndOfTurn ==
    [][/\ TurnEnds =>
            /\ terminatedChan' = <<>>
            /\ Len(runResults') >= Len(terminatedChan)
            /\ LastOf(runResults', Len(terminatedChan)) = TimeoutResultsFor(terminatedChan)
       /\ (CycleEnds /\ ~TurnEnds) =>
            /\ terminatedChan' = terminatedChan
            /\ \A k \in (Len(runResults) + 1)..Len(runResults') :
                    ~IsTimeoutResult(runResults'[k])]_vars

\* The call on the second event is armed while the timeout message of the
\* terminated call on the first event waits in the channel.
C26_Witness ==
    /\ rpc = "call" /\ event_ix = 2
    /\ handler_ix \in killed
    /\ handlers[handler_ix].code = "loops"
    /\ terminatedChan = <<handlers[handler_ix].handler_id>>
    /\ runResults # <<>>
    /\ runResults[Len(runResults)].event_id = hydrated_events[1].event_id

(***************************************************************************)
(* C27: every call of run_all comes to an end, whatever the handlers do:   *)
(* the orchestrator gets to drop the arm channel, the watchdog thread      *)
(* then ends on the disconnect, and run_all does not return before the     *)
(* watchdog thread has ended.                                              *)
(***************************************************************************)
RunAllEnded == rpc \in {"returned", "panicked"}

C27_RunAllTerminates ==
    /\ (rpc # "idle") ~> senderGone
    /\ senderGone ~> (wdpc = "done")
    /\ (rpc # "idle") ~> RunAllEnded
    /\ [](rpc = "returned" => wdpc = "done")

\* run_all has returned for a full list of handlers, one of which loops on
\* every call, and a full list of events.
C27_Witness ==
    /\ rpc = "returned" /\ wdpc = "done"
    /\ \E i \in 1..Len(handlers) : handlers[i].code = "loops" /\ i \in killed
    /\ Len(handlers) = MaxHandlers
    /\ Len(hydrated_events) = MaxRunEvents

(***************************************************************************)
(* C28: the watchdog terminates only while it is armed, and only the       *)
(* isolate of the arm message it received last; having terminated, or      *)
(* having received None, it is disarmed and terminates nothing until it    *)
(* receives the next arm message; the handler id it sends on the           *)
(* terminated channel is the one of that arm message.                      *)
(***************************************************************************)
\* The steps of the watchdog thread.
ReceivesArm ==
    /\ wdpc = "recv" /\ handlerChan # <<>> /\ handlerChan' = Tail(handlerChan)
    /\ IsSome(Head(handlerChan))

ReceivesDisarm ==
    /\ wdpc = "recv" /\ handlerChan # <<>> /\ handlerChan' = Tail(handlerChan)
    /\ ~IsSome(Head(handlerChan))

TimesOut == wdpc = "recv" /\ wdpc' = "send_terminated"

SendsTerminated == wdpc = "send_terminated" /\ wdpc' = "terminate"

Terminates == wdpc = "terminate" /\ wdpc' = "recv"

C28_WatchdogTerminatesArmedOnly ==
    [][/\ ReceivesArm =>
            /\ current_isolate' = Some(Unwrap(Head(handlerChan)).isolate)
            /\ current_handler_id' = Unwrap(Head(handlerChan)).handler_id
       /\ ReceivesDisarm => current_isolate' = None
       /\ (current_isolate' # current_isolate /\ IsSome(current_isolate')) => ReceivesArm
       /\ (current_handler_id' # current_handler_id /\ IsSome(current_isolate')) => ReceivesArm
       /\ TimesOut => IsSome(current_isolate)
       /\ SendsTerminated =>
            /\ IsSome(current_isolate)
            /\ terminatedChan' =
                    Append(terminatedChan, handlers[Unwrap(current_isolate)].handler_id)
       /\ Terminates =>
            /\ IsSome(current_isolate)
            /\ terminating' \subseteq terminating \cup {Unwrap(current_isolate)}
            /\ current_isolate' = None
       /\ ~(terminating' \subseteq terminating) => Terminates
       /\ Len(terminatedChan') > Len(terminatedChan) => SendsTerminated]_vars

\* The watchdog has terminated the looping call it was armed for and is
\* disarmed; the call has not returned yet.
C28_Witness ==
    /\ wdpc = "recv" /\ current_isolate = None
    /\ rpc = "call" /\ handlerChan = <<>>
    /\ handler_ix \in terminating
    /\ handlers[handler_ix].code = "loops"
    /\ terminatedChan = <<handlers[handler_ix].handler_id>>

(***************************************************************************)
(* C29: the per-event results of run_all are grouped by handler, in the    *)
(* order of the handler list; within a handler they follow the order of    *)
(* the event list; the results of one handler and event are in the order   *)
(* of the elements of the array f returned.                                *)
(***************************************************************************)
PerEventResults == SelectSeq(runResults, LAMBDA r : r.event_id # -1)

\* The place of a handler id in the handler list, of an event id in the
\* event list, of an event id among the hydrated events.
HandlerPlace(handler_id) ==
    CHOOSE k \in 1..Len(handlers) : handlers[k].handler_id = handler_id

EventPlace(event_id) == CHOOSE k \in 1..Len(runEvents) : runEvents[k].event_id = event_id

CallNumber(event_id) ==
    CHOOSE k \in 1..Len(hydrated_events) : hydrated_events[k].event_id = event_id

\* The outputs recorded for one handler and event, in the order of the results.
OutputsOf(handler_id, event_id) ==
    LET rs == SelectSeq(PerEventResults,
                        LAMBDA r : /\ r.handler_id = handler_id /\ r.event_id = event_id
                                   /\ IsSome(r.output))
    IN  [k \in 1..Len(rs) |-> Unwrap(rs[k].output)]

\* Neighbours in order is all pairs in order: the places are numbers.
ResultsInListOrder ==
    LET pe == PerEventResults IN
    /\ \A i \in 1..(Len(pe) - 1) :
        /\ HandlerPlace(pe[i].handler_id) <= HandlerPlace(pe[i + 1].handler_id)
        /\ pe[i].handler_id = pe[i + 1].handler_id =>
                EventPlace(pe[i].event_id) <= EventPlace(pe[i + 1].event_id)
    /\ \A i \in 1..Len(pe) :
        LET outs == OutputsOf(pe[i].handler_id, pe[i].event_id) IN
        outs # <<>> =>
            outs = CallF(handlers[HandlerPlace(pe[i].handler_id)].code,
                         CallNumber(pe[i].event_id)).elems

\* What run_all returns is in list order.
C29_ResultsInListOrder == rpc = "returned" => ResultsInListOrder

\* run_all has returned two results for each of two events from each of two
\* handlers, and the list had an event that does not hydrate.
C29_Witness ==
    /\ rpc = "returned"
    /\ Len(handlers) >= 2 /\ \A k \in 1..Len(handlers) : handlers[k].code = "pair"
    /\ Len(hydrated_events) >= 1
    /\ Len(PerEventResults) = 2 * Len(handlers) * Len(hydrated_events)
    /\ Len(runResults) = Len(PerEventResults)

(***************************************************************************)
(* C30: an assertion whose source is not Crossref, or whose body does not  *)
(* parse as JSON, yields zero events; pump_n does not fail on it, goes on  *)
(* with the rest of the batch, and removes the assertion's queue row with  *)
(* the others when it commits.                                             *)
(***************************************************************************)
NotCrossrefOrUnparsed(assertion) ==
    assertion.source_id # "crossref" \/ assertion.json = None

EventsFrom(evs, assertion) ==
    SelectSeq(evs, LAMBDA ev : ev.assertion_id = assertion.assertion_id)

PumpPolled == pumpPc \in {"events", "commit"} \/ (pumpPc = "returned" /\ pumpBatch # <<>>)

\* No event from such an assertion; the events of every other assertion of
\* the batch, before and after it, are there.
BatchEventsComplete ==
    PumpPolled =>
        \A i \in 1..Len(pumpBatch) :
            LET assertion == pumpBatch[i] IN
            IF NotCrossrefOrUnparsed(assertion)
            THEN EventsFrom(pumpEvents, assertion) = <<>>
            ELSE /\ EventsFrom(pumpEvents, assertion) = extract_events(assertion, assertion.json)
                 /\ EventsFrom(pumpEvents, assertion) # <<>>

\* A poll that the database answers never ends the pump; the loop has a
\* turn only for an event, so a batch of such assertions goes to the commit.
PumpGoesOn ==
    /\ pumpPc = "idle" /\ pumpBatch' # <<>> => pumpPc' \in {"events", "commit"}
    /\ pumpPc' = "events" =>
            \E i \in 1..Len(pumpBatch') : ~NotCrossrefOrUnparsed(pumpBatch'[i])

\* The commit removes the queue row of every assertion of the batch and
\* stores the events of the batch.
CommitRemovesBatch ==
    pumpPc = "commit" /\ pumpPc' = "returned" /\ pumpResult' # "Err" =>
        /\ \A r \in pumpQueue : PumpEntry(r) \in SeqToSet(pumpBatch) => r \notin pumpQueue'
        /\ \A i \in 1..Len(pumpBatch) :
                \A r \in pumpQueue' : r.assertion_id # pumpBatch[i].assertion_id
        /\ eventTable' = eventTable \o pumpEvents
        /\ pumpResult' = <<Len(pumpBatch), Len(pumpEvents)>>

C30_ZeroEventAssertions ==
    /\ []BatchEventsComplete
    /\ [][PumpGoesOn /\ CommitRemovesBatch]_vars

\* A committed pump whose batch held an assertion of another source, then a
\* Crossref assertion that does not parse, then one that yields events.
C30_Witness ==
    /\ pumpPc = "returned" /\ pumpResult # "Err" /\ Len(pumpBatch) = 3
    /\ pumpBatch[1].source_id # "crossref" /\ pumpBatch[1].json # None
    /\ pumpBatch[2].source_id = "crossref" /\ pumpBatch[2].json = None
    /\ ~NotCrossrefOrUnparsed(pumpBatch[3])
    /\ pumpQueue = {}
    /\ eventTable = extract_events(pumpBatch[3], pumpBatch[3].json)

(***************************************************************************)
(* C31: a failure of the enricher for the subject or object of an event    *)
(* (no answer after the retries, an answer that is not JSON, whatever its  *)
(* status) does not end the pump: the event is inserted, the other events  *)
(* of the batch are processed and the pump commits.                        *)
(***************************************************************************)
\* The step in which a fetch gives up after its last retry.
FetchGivesUp ==
    /\ pumpPc = "fetch"
    /\ pumpAttempts = MAX_TIMES
    /\ IsSome(pumpFetch') /\ Unwrap(pumpFetch').result = "failed"

\* Giving up goes on to the next identifier or to insert_event, with the
\* transaction and the events as they were.
FetchFailureGoesOn ==
    FetchGivesUp =>
        /\ pumpPc' \in {"fetch", "insert"}
        /\ pumpResult' = None
        /\ pumpTxAborted' = pumpTxAborted
        /\ pumpTodo' = pumpTodo /\ pumpTx' = pumpTx

\* insert_event that the database accepts inserts the event in hand; the
\* commit stores every event of the batch, failed fetches or not.
EventsStillInserted ==
    /\ pumpPc = "insert" /\ pumpPc' \in {"events", "commit"} =>
            pumpTx' = Append(pumpTx, Head(pumpTodo))
    /\ pumpPc = "commit" /\ pumpPc' = "returned" /\ pumpResult' # "Err" /\ pumpFetchFailed =>
            eventTable' = eventTable \o pumpEvents

\* pump_n returns Err only when a database statement failed.
ErrOnlyFromDatabase == pumpResult = "Err" => pumpDbFailed

C31_EnricherFailureNotFatal ==
    /\ []ErrOnlyFromDatabase
    /\ [][FetchFailureGoesOn /\ EventsStillInserted]_vars

\* A committed pump of two assertions, four events, in which every fetch of
\* the cited DOI failed, the last one on a 404 that was not JSON.
C31_Witness ==
    /\ pumpPc = "returned" /\ pumpResult # "Err"
    /\ Len(pumpBatch) = 2 /\ Len(pumpEvents) = 4
    /\ pumpFetchFailed /\ pumpSecondary = {}
    /\ IsSome(pumpFetch)
    /\ Unwrap(pumpFetch).result = "failed" /\ Unwrap(pumpFetch).response.status = 404
    /\ eventTable = pumpEvents

(***************************************************************************)
(* C32: the incremental scan forwards exactly the items whose indexed      *)
(* date-time is strictly later than `after` (none without a valid date),   *)
(* page by page, and requests no page after the first one that has zero    *)
(* such items or no item at all.                                           *)
(***************************************************************************)
RECURSIVE Flatten(_)
Flatten(seqs) == IF seqs = <<>> THEN <<>> ELSE Head(seqs) \o Flatten(Tail(seqs))

StrictlyLater(place) ==
    /\ scanListing[place].indexed # None
    /\ scanListing[place].indexed[1] > scanAfter

LaterOn(places) == SelectSeq(places, StrictlyLater)

C32_ScanForwardsLaterItems ==
    scanListing # None /\ scanPc # "failed" =>
        /\ scanSent = LaterOn(Flatten(scanPages))
        /\ Flatten(scanPages) = [k \in 1..scanCursor |-> k]
        /\ \A k \in 1..(Len(scanPages) - 1) : LaterOn(scanPages[k]) # <<>>
        /\ Len(scanPages) > 0 /\ LaterOn(scanPages[Len(scanPages)]) = <<>> => ~scanAgain

\* A finished run of two pages: the first with an item indexed later than
\* `after` and an item without date, the second with an item indexed at
\* `after` and nothing later.
C32_Witness ==
    /\ scanPc = "done" /\ Len(scanPages) = 2
    /\ Len(scanPages[1]) = 2 /\ Len(LaterOn(scanPages[1])) = 1
    /\ \E k \in 1..2 : scanListing[k].indexed = None
    /\ Len(scanPages[2]) = 1 /\ scanListing[3].indexed = Some(scanAfter)
    /\ Len(scanSent) = 1

(***************************************************************************)
(* C33: when a pump returns an error, the drain that issued it issues no   *)
(* further pump, the transaction of the failed batch is not committed, and *)
(* the stages selected on the command line that come later still run.      *)
(***************************************************************************)
Drains == {extractTask[w] : w \in DrainTasks} \cup {executeDrain}

\* No drain has issued a pump after one of its pumps returned Err, and a
\* drain that got an Err has ended.
NoPumpAfterErr ==
    \A d \in Drains : /\ ~d.late
                      /\ d.erred => d.pc \in {"failed", "done"} /\ d.held = 0

\* The step in which a pump returns Err leaves both queues as they are.
FailedBatchNotCommitted ==
    (\/ \E w \in DrainTasks : ~extractTask[w].erred /\ extractTask'[w].erred
     \/ ~executeDrain.erred /\ executeDrain'.erred)
        => queuedAssertions' = queuedAssertions /\ queuedEvents' = queuedEvents

\* After the extract stage, and after the execute stage, main enters the
\* next selected stage, an Err logged or not; at exit every selected stage
\* has run.
LaterStagesRun ==
    /\ mainPc \in {"execute", "api", "exit"} /\ mainOpt["extract"] => "extract" \in mainRan
    /\ mainPc \in {"api", "exit"} /\ mainOpt["execute"] => "execute" \in mainRan
    /\ mainPc = "exit" /\ mainOpt["api"] => "api" \in mainRan

C33_PumpErrorEndsDrainOnly ==
    /\ [](NoPumpAfterErr /\ LaterStagesRun)
    /\ [][FailedBatchNotCommitted]_vars

\* An invocation with the three stages selected has ended; an extract task
\* and the executor's drain each got an Err from a pump that had polled a
\* row, and the rows are still queued.
C33_Witness ==
    /\ mainPc = "exit" /\ mainRan = {"extract", "execute", "api"}
    /\ \E w \in DrainTasks : extractTask[w].erred /\ extractTask[w].polled > 0
    /\ executeDrain.erred /\ executeDrain.polled > 0
    /\ queuedAssertions > 0 /\ queuedEvents > 0

(***************************************************************************)
(* C34: the harvested items buffered between the producer task and the     *)
(* consumer never exceed a fixed bound; the producer waits on a full       *)
(* channel instead of buffering further pages.  Stated with the smallest   *)
(* capacity that lets the producer send a whole page: the channel never    *)
(* holds more items than one page has.                                     *)
(***************************************************************************)
C34_ChannelBounded == Len(scanChan) <= PageRows

(***************************************************************************)
(* C36: when an incremental harvest run moves the checkpoint to T, every   *)
(* work the API lists with after < indexed <= T has been stored as an      *)
(* assertion by that run, a failed page fetch included.  Works without a   *)
(* DOI are never stored as assertions and are left aside.                  *)
(***************************************************************************)
CoveredBy(place, moment) ==
    /\ StrictlyLater(place)
    /\ scanListing[place].indexed[1] <= moment
    /\ scanListing[place].doi

C36_CheckpointCoversStored ==
    scanPc = "done" =>
        \A place \in 1..Len(scanListing) :
            CoveredBy(place, Unwrap(scanCheckpoint)) => place \in scanStored

(***************************************************************************)
(* C37: in an incremental harvest run the transaction that inserts the     *)
(* assertions commits before the checkpoint is written, and an error of an *)
(* insert ends the run without writing the checkpoint: the checkpoint      *)
(* never covers an assertion that was not durably stored.                  *)
(***************************************************************************)
\* The checkpoint is written by the step that follows the commit only, when
\* nothing is left uncommitted.
CommitBeforeCheckpoint ==
    scanCheckpoint' # scanCheckpoint =>
        /\ scanPc = "checkpoint"
        /\ scanTx = {} /\ scanChan = <<>>
        /\ UNCHANGED scanStored

\* A failed insert ends the run, and a run that has ended so writes nothing.
InsertErrorEndsRun ==
    scanPc = "failed" =>
        /\ scanPc' = "failed"
        /\ UNCHANGED <<scanCheckpoint, scanStored, scanTx>>

\* Every item the consumer took that calls for an assertion is stored when
\* the checkpoint is there.
ReceivedAreStored ==
    scanCheckpoint # None =>
        \A place \in scanReceived :
            IsSome(get_index_date(scanListing[place])) /\ scanListing[place].doi
                => place \in scanStored

C37_CheckpointAfterCommit ==
    /\ []ReceivedAreStored
    /\ [][CommitBeforeCheckpoint /\ InsertErrorEndsRun]_vars

\* A run has written its checkpoint, two assertions are stored.
C37_Witness ==
    /\ scanPc = "done" /\ scanCheckpoint # None
    /\ Cardinality(scanStored) >= 2
    /\ scanStored = scanReceived

(***************************************************************************)
(* C35: under every interleaving of the watchdog thread and the            *)
(* orchestrator, every handler id the watchdog sends on the terminated     *)
(* channel has been read and turned into a timeout result when run_all     *)
(* returns: nothing is left unread in the channel.                         *)
(***************************************************************************)
C35_NoTerminationLeftUnread == rpc = "returned" => terminatedChan = <<>>

(***************************************************************************)
(* C38: concurrent load_handler calls with the same source never fail:     *)
(* one of them returns New, every other returns Exists with the same       *)
(* handler_id, and none gets FailedSave from a look-up that does not see   *)
(* the row the concurrent winner inserted.  Calls whose statement fails on *)
(* the database are left aside: the result looked at is the one the match  *)
(* on the returned row gives.                                              *)
(***************************************************************************)
C38_ConcurrentLoadNeverFails ==
    /\ \A p \in Loaders :
        loader[p].pc = "inserted" =>
            /\ TaskLoadResult(loader[p].new, old_id(loader[p])) # FailedSave
            /\ \A r \in RowsOf(loader[p].code) :
                TaskLoadResult(loader[p].new, old_id(loader[p])) = Exists(r.handler_id)
    /\ \A code \in HandlerSources :
        Cardinality({k \in 1..Len(loadLog) :
                        loadLog[k].code = code /\ loadLog[k].result.kind = "New"}) <= 1

(***************************************************************************)
(* C39: every event a committed executor pump removed from the event queue *)
(* was offered to every handler that was enabled when the pump's           *)
(* transaction read the handler table, and to no other: its results are    *)
(* those of these handlers, once each; an event polled while no handler    *)
(* was enabled is removed with zero results and gets none from a handler   *)
(* enabled later.                                                          *)
(***************************************************************************)
StoredResultsOf(e) == {x \in BagToSet(results) : x.event_id = e}

C39_OfferedToEnabledHandlers ==
    /\ RemovedEvents = DOMAIN offered
    /\ \A e \in DOMAIN offered :
        /\ StoredResultsOf(e) = RunAllResults(offered[e], <<e>>)
        /\ \A x \in StoredResultsOf(e) : CopiesIn(x, results) = 1
        /\ offered[e] = {} => StoredResultsOf(e) = {}

\* An event was removed while no handler was enabled and has no result,
\* another was removed after both handlers were enabled and has the result
\* of the handler that returns an element; both handlers are enabled now.
C39_Witness ==
    /\ handlerTable = HandlerRows
    /\ \E e \in DOMAIN offered : offered[e] = {} /\ StoredResultsOf(e) = {}
    /\ \E e \in DOMAIN offered : offered[e] = HandlerRows /\ Cardinality(StoredResultsOf(e)) = 1

(***************************************************************************)
(* C40: an event whose stored body does not hydrate (it is not JSON, or    *)
(* not a JSON object) is skipped by run_all for every handler and has no   *)
(* result at all, not even an error; its queue row is removed all the same *)
(* when the pump commits.                                                  *)
(***************************************************************************)
Unhydrated == {runEvents[i].event_id : i \in {k \in 1..Len(runEvents) :
                                                to_json_value(runEvents[k]) = None}}

C40_UnhydratedEventSkipped ==
    \A e \in Unhydrated :
        /\ \A i \in 1..Len(hydrated_events) : hydrated_events[i].event_id # e
        /\ \A i \in 1..Len(runResults) : runResults[i].event_id # e
        /\ callerTx.pc = "committed" =>
            /\ e \notin callerTx.queued
            /\ \A i \in 1..Len(callerTx.stored) : callerTx.stored[i].event_id # e
        /\ callerTx.pc \in {"open", "failed"} => e \in callerTx.queued

\* A pump has committed: its run_all was given an event that hydrates and
\* one that does not, and a handler that returned a result for the first.
C40_Witness ==
    /\ callerTx.pc = "committed"
    /\ Unhydrated # {}
    /\ Len(hydrated_events) > 0
    /\ \E i \in 1..Len(callerTx.stored) :
        /\ callerTx.stored[i].event_id = hydrated_events[1].event_id
        /\ IsSome(callerTx.stored[i].output)

=============================================================================
